---- MODULE Spec2Model ----
(***************************************************************************)
(* State-machine model of the TPL decoder of sm2_tpl_addon/tpl_parser.py:  *)
(* the unified loader load_tpl, the USF node-tree parser (USFParser) and   *)
(* the 1SER dual-file parser (SERParser).                                  *)
(*                                                                         *)
(* Representation.                                                         *)
(*  - A byte buffer is a sequence of integers 0..255.  The input bytes are *)
(*    drawn from 0..193 and 245..255, so that no buffer holds a UTF-8 lead *)
(*    byte (0xC2..0xF4): every byte >= 0x80 is then an invalid sequence on *)
(*    its own, which is what the two decoders below rely on.               *)
(*  - A str is the sequence of its code points.                            *)
(*  - A float read by struct '<f' is kept as its IEEE-754 bit pattern      *)
(*    (the signed 32-bit integer with the same four bytes): the map from   *)
(*    patterns to floats is injective on the patterns used.                *)
(*  - Optional[X] is a sequence of length <= 1; a reference to a TPLNode   *)
(*    is its index in heap, None being 0.                                  *)
(***************************************************************************)
EXTENDS Integers, Sequences, FiniteSets, TLC

VARIABLES
    fs,       \* the files on disk: the path given to the entry point
    entry,    \* which function of the module the caller invoked
    lt,       \* load_tpl's frame: position, header, the parser.load calls made
              \* and their results, and the pair returned
    heap,     \* every TPLNode object created so far
    parser,   \* the parser object of the running / last attempt
    reader,   \* the BytesIO cursor of USFParser, with a record of short reads
    pc,       \* position inside the running parser
    stack,    \* the active _parse_node frames, innermost last
    mesh,     \* the MeshData _parse_mesh is filling (Optional)
    loc       \* the locals of the running parser function

vars == <<fs, entry, lt, heap, parser, reader, pc, stack, mesh, loc>>

(***************************************************************************)
(* Bounds of the model (inputs only).                                      *)
(***************************************************************************)
\* length of the non-empty strings placed in input buffers
MaxNameLen == 2
\* largest child count of an input node
MaxChildren == 1
\* number of object names placed in an input 1SER container
MaxObjects == 1

(***************************************************************************)
(* Program constants.                                                      *)
(***************************************************************************)
None == 0
\* 1.0 as a binary32 bit pattern (0x3F800000)
F1 == 1065353216
MaxStringLength == 10000
V102 == 258
V103 == 259
V104 == 260
V106 == 262
V107 == 263
V10A == 266
V10B == 267
V10C == 268
V10D == 269
V10E == 270
MeshColorSetsVersion == 258
MeshTangentsVersion == 259
MeshSkinningMethodVersion == 260
MeshBonePairsVersion == 261
MeshBlendShapesVersion == 262
MeshUVNameVersion == 263
MaterialDataVersion == 266
UsfVersionLimit == 1000
HeaderSize == 8

Min(a, b) == IF a < b THEN a ELSE b
Max(a, b) == IF a > b THEN a ELSE b

Magic1SER == <<49, 83, 69, 82>>
MagicTPL1 == <<84, 80, 76, 49>>
MagicOGM1 == <<79, 71, 77, 49>>
MagicANIM == <<65, 78, 73, 77>>

(***************************************************************************)
(* struct and BytesIO.                                                     *)
(***************************************************************************)
\* the i-th byte of data (0 past its end)
ByteAt(data, i) == IF i <= Len(data) THEN data[i] ELSE 0

\* '<i' at offset o of data: little-endian signed 32-bit
I32At(data, o) ==
    LET b3 == ByteAt(data, o + 4)
        hi == IF b3 >= 128 THEN b3 - 256 ELSE b3
    IN  hi * 16777216 + ByteAt(data, o + 3) * 65536 + ByteAt(data, o + 2) * 256
            + ByteAt(data, o + 1)

I32(data) == I32At(data, 0)

\* '<H': little-endian unsigned 16-bit
U16(data) == ByteAt(data, 2) * 256 + ByteAt(data, 1)

\* '<h': little-endian signed 16-bit
I16(data) ==
    LET b1 == ByteAt(data, 2)
    IN  (IF b1 >= 128 THEN b1 - 256 ELSE b1) * 256 + ByteAt(data, 1)

\* struct.unpack(fmt, data) raises struct.error unless len(data) is the size of fmt
struct_unpack_ok_NoCheck(data, size) == TRUE
struct_unpack_ok(data, size) == Len(data) = size

\* BytesIO.read(n): at most n bytes, all the rest when n < 0
BytesIO_read(buf, pos, n) ==
    LET avail == Len(buf) - pos
        k == IF n < 0 \/ n > avail THEN avail ELSE n
    IN  [data |-> SubSeq(buf, pos + 1, pos + k), pos |-> pos + k,
         short |-> n > avail]

\* BytesIO.read(count * size), computed without leaving 32 bits
BytesIO_read_scaled(buf, pos, count, size) ==
    LET avail == Len(buf) - pos
    IN  IF count < 0 THEN BytesIO_read(buf, pos, -1)
        ELSE IF count > avail THEN [BytesIO_read(buf, pos, avail) EXCEPT !.short = TRUE]
        ELSE BytesIO_read(buf, pos, count * size)

\* struct.unpack('<i', reader.read(4))[0]
read_i32(buf, pos) ==
    LET r == BytesIO_read(buf, pos, 4)
    IN  [raised |-> ~struct_unpack_ok(r.data, 4), val |-> I32(r.data),
         pos |-> r.pos, short |-> r.short]

\* struct.unpack('<B', reader.read(1))[0]
read_u8(buf, pos) ==
    LET r == BytesIO_read(buf, pos, 1)
    IN  [raised |-> ~struct_unpack_ok(r.data, 1), val |-> ByteAt(r.data, 1),
         pos |-> r.pos, short |-> r.short]

\* struct.unpack('<I', reader.read(4))[0]; the value is kept as its four bytes
read_u32(buf, pos) ==
    LET r == BytesIO_read(buf, pos, 4)
    IN  [raised |-> ~struct_unpack_ok(r.data, 4), val |-> r.data,
         pos |-> r.pos, short |-> r.short]

\* struct.unpack('<' + n*'f', reader.read(4*n)): n float bit patterns
read_floats(buf, pos, n) ==
    LET r == BytesIO_read(buf, pos, 4 * n)
    IN  [raised |-> ~struct_unpack_ok(r.data, 4 * n),
         val |-> [i \in 1..n |-> I32At(r.data, 4 * i - 4)],
         pos |-> r.pos, short |-> r.short]

\* bytes.decode('utf-8', errors='replace') on the input alphabet: an ASCII
\* byte is its own code point, any other byte is U+FFFD
DecodeReplace(data) == [i \in 1..Len(data) |-> IF data[i] < 128 THEN data[i] ELSE 65533]

\* read_string: Int32 length + UTF-8 data
read_string_NoLengthCheck(buf, pos) ==
    LET l == read_i32(buf, pos)
        d == BytesIO_read(buf, l.pos, l.val)
    IN  IF l.raised THEN [raised |-> TRUE, val |-> <<>>, pos |-> l.pos, short |-> l.short]
        ELSE [raised |-> FALSE, val |-> DecodeReplace(d.data), pos |-> d.pos,
              short |-> d.short]

read_string(buf, pos) ==
    LET l == read_i32(buf, pos)
        d == BytesIO_read(buf, l.pos, l.val)
    IN  IF l.raised THEN [raised |-> TRUE, val |-> <<>>, pos |-> l.pos, short |-> l.short]
        ELSE IF l.val <= 0 \/ l.val > MaxStringLength
             THEN [raised |-> FALSE, val |-> <<>>, pos |-> l.pos, short |-> FALSE]
        ELSE [raised |-> FALSE, val |-> DecodeReplace(d.data), pos |-> d.pos,
              short |-> d.short]

(***************************************************************************)
(* Data structures.                                                        *)
(***************************************************************************)
\* Matrix4(): the identity, row-major
Matrix4 == <<F1, 0, 0, 0,  0, F1, 0, 0,  0, 0, F1, 0,  0, 0, 0, F1>>

\* Matrix4.read: four rows of '<ffff'; the rows read before a short row stay
\* written in the matrix
RECURSIVE Matrix4_read_rows(_, _, _, _)
Matrix4_read_rows(buf, pos, m, row) ==
    IF row > 4 THEN [raised |-> FALSE, val |-> m, pos |-> pos, short |-> FALSE]
    ELSE LET r == read_floats(buf, pos, 4)
         IN  IF r.raised THEN [raised |-> TRUE, val |-> m, pos |-> r.pos, short |-> r.short]
             ELSE Matrix4_read_rows(buf, r.pos,
                      [i \in 1..16 |-> IF i > 4 * row - 4 /\ i <= 4 * row
                                       THEN r.val[i - (4 * row - 4)] ELSE m[i]],
                      row + 1)

Matrix4_read(buf, pos, m) == Matrix4_read_rows(buf, pos, m, 1)

\* TPLNode(uid, name)
TPLNode(uid, name) ==
    [uid |-> uid, name |-> name, local_matrix |-> Matrix4, world_matrix |-> Matrix4,
     mesh |-> <<>>, children |-> <<>>, parent |-> None, maya_node_id |-> <<>>]

\* MeshData()
MeshData ==
    [vertices |-> <<>>, normals |-> <<>>, faces |-> <<>>, uv_sets |-> <<>>,
     colors |-> <<>>, tangents |-> <<>>, skins |-> <<>>, bones |-> <<>>,
     materials |-> <<>>]

\* Face(a, b, c)
Face(a, b, c) == [a |-> a, b |-> b, c |-> c]

(***************************************************************************)
(* Control of the USF parser.                                              *)
(***************************************************************************)
\* The flagged optional sections of a node, in stream order: LWI info,
\* mesh, animation, actor, ref-location, light, camera, nav waypoint,
\* nav splines, ref descriptor, decal, anim extra, ECS
SectionCount == 13
MeshSection == 2

\* the version from which section s has a flag byte in the stream
SectionMinVersion_Shifted(s) ==
    CASE s <= 4 -> 0
      [] s = 5 -> V103 [] s = 6 -> V104 [] s = 7 -> V106 [] s = 8 -> V107
      [] s = 9 -> V10A [] s = 10 -> V10C [] s = 11 -> V10D [] s = 12 -> V10E
      [] OTHER -> V10E + 1

SectionMinVersion(s) ==
    CASE s <= 4 -> 0
      [] s = 5 -> V102 [] s = 6 -> V103 [] s = 7 -> V104 [] s = 8 -> V106
      [] s = 9 -> V107 [] s = 10 -> V10A [] s = 11 -> V10C [] s = 12 -> V10D
      [] OTHER -> V10E

\* the next section after s whose flag the stream holds at this version, 0 if none
NextSection(version, s) ==
    LET later == {j \in (s + 1)..SectionCount : version >= SectionMinVersion(j)}
    IN  IF later = {} THEN 0 ELSE CHOOSE j \in later : \A k \in later : j <= k

\* where _parse_node goes on once the sections up to s are done
AfterSection(version, nxt) ==
    IF nxt # 0 THEN "node.flag"
    ELSE IF version >= V10B THEN "node.maya_node_id" ELSE "node.child_count"

\* self.root while the root frame of _parse_node is still running: the
\* assignment self.root = self._parse_node(reader) binds only on return
RootDuringParse_Early(node) == node
RootDuringParse(node) == None

\* the exception handlers leave reader where the failing read left it
Consumed(r, kind) ==
    [reader EXCEPT !.pos = r.pos,
                   !.short = IF r.short THEN @ \cup {kind} ELSE @]

Top == stack[Len(stack)]
SetTop(f) == [stack EXCEPT ![Len(stack)] = f]

\* One step of the USF parser: the read r was made; when it raised, the
\* exception leaves for the handler, else the step's assignments st apply.
\* heap_raised is the heap a raising Matrix4.read leaves behind.
Apply(r, kind, st) ==
    /\ reader' = Consumed(r, kind)
    /\ IF r.raised
       THEN /\ pc' = "usf.raise"
            /\ heap' = IF "heap_raised" \in DOMAIN st THEN st.heap_raised ELSE heap
            /\ UNCHANGED <<parser, stack, mesh, loc>>
       ELSE /\ pc' = st.pc
            /\ parser' = IF "parser" \in DOMAIN st THEN st.parser ELSE parser
            /\ heap' = IF "heap" \in DOMAIN st THEN st.heap ELSE heap
            /\ stack' = IF "stack" \in DOMAIN st THEN st.stack ELSE stack
            /\ mesh' = IF "mesh" \in DOMAIN st THEN st.mesh ELSE mesh
            /\ loc' = IF "loc" \in DOMAIN st THEN st.loc ELSE loc

\* the call self._parse_node(reader): node = TPLNode() and a new frame
NewFrame(node) == [node |-> node, version |-> 0, sec |-> 0, remaining |-> 0]

UsfParseLabels ==
    {"parse.version", "parse.source_path", "parse.file_type", "parse.options",
     "parse.scene_version", "parse.has_root"}

\* USFParser._parse, one read per step
USF_parse ==
    /\ parser.kind = "USF" /\ parser.status = "running"
    /\ pc \in UsfParseLabels
    /\ UNCHANGED <<fs, entry, lt>>
    /\ LET buf == reader.buf
           pos == reader.pos
       IN  CASE pc = "parse.version" ->
                 LET r == read_i32(buf, pos)
                 IN  Apply(r, "fixed", [pc |-> "parse.source_path",
                           parser |-> [parser EXCEPT !.version = r.val]])
             [] pc = "parse.source_path" ->
                 LET r == read_string(buf, pos)
                 IN  Apply(r, "string", [pc |-> "parse.file_type",
                           parser |-> [parser EXCEPT !.source_path = r.val]])
             [] pc = "parse.file_type" ->
                 LET r == read_string(buf, pos)
                 IN  Apply(r, "string", [pc |-> "parse.options",
                           parser |-> [parser EXCEPT !.file_type = r.val]])
             [] pc = "parse.options" ->
                 Apply(read_string(buf, pos), "string", [pc |-> "parse.scene_version"])
             [] pc = "parse.scene_version" ->
                 Apply(read_u32(buf, pos), "fixed", [pc |-> "parse.has_root"])
             [] pc = "parse.has_root" ->
                 LET r == read_u8(buf, pos)
                     node == Len(heap) + 1
                 IN  IF r.val # 0
                     THEN Apply(r, "fixed", [pc |-> "node.version",
                              heap |-> Append(heap, TPLNode(0, <<>>)),
                              stack |-> <<NewFrame(node)>>,
                              parser |-> [parser EXCEPT !.root = RootDuringParse(node)]])
                     ELSE Apply(r, "fixed", [pc |-> "idle",
                              parser |-> [parser EXCEPT !.status = "true"]])

UsfNodeLabels ==
    {"node.version", "node.uid", "node.name", "node.model_name", "node.affixes",
     "node.pses_version", "node.pses_data", "node.local_matrix", "node.world_matrix",
     "node.local_original", "node.source_id", "node.flag", "node.maya_node_id",
     "node.child_count"}

\* USFParser._parse_node up to the child loop, one read per step
USF_parse_node ==
    /\ parser.kind = "USF" /\ parser.status = "running"
    /\ pc \in UsfNodeLabels
    /\ UNCHANGED <<fs, entry, lt>>
    /\ LET buf == reader.buf
           pos == reader.pos
           f == Top
           n == f.node
       IN  CASE pc = "node.version" ->
                 LET r == read_i32(buf, pos)
                 IN  Apply(r, "fixed", [pc |-> "node.uid",
                           stack |-> SetTop([f EXCEPT !.version = r.val])])
             [] pc = "node.uid" ->
                 LET r == read_i32(buf, pos)
                 IN  Apply(r, "fixed", [pc |-> "node.name",
                           heap |-> [heap EXCEPT ![n].uid = r.val]])
             [] pc = "node.name" ->
                 LET r == read_string(buf, pos)
                 IN  Apply(r, "string", [pc |-> "node.model_name",
                           heap |-> [heap EXCEPT ![n].name = r.val]])
             [] pc = "node.model_name" ->
                 Apply(read_string(buf, pos), "string", [pc |-> "node.affixes"])
             [] pc = "node.affixes" ->
                 Apply(read_string(buf, pos), "string", [pc |-> "node.pses_version"])
             [] pc = "node.pses_version" ->
                 Apply(read_i32(buf, pos), "fixed", [pc |-> "node.pses_data"])
             [] pc = "node.pses_data" ->
                 Apply(read_string(buf, pos), "string", [pc |-> "node.local_matrix"])
             [] pc = "node.local_matrix" ->
                 LET r == Matrix4_read(buf, pos, heap[n].local_matrix)
                     h == [heap EXCEPT ![n].local_matrix = r.val]
                 IN  Apply(r, "fixed", [pc |-> "node.world_matrix",
                           heap |-> h, heap_raised |-> h])
             [] pc = "node.world_matrix" ->
                 LET r == Matrix4_read(buf, pos, heap[n].world_matrix)
                     h == [heap EXCEPT ![n].world_matrix = r.val]
                 IN  Apply(r, "fixed", [pc |-> "node.local_original",
                           heap |-> h, heap_raised |-> h])
             [] pc = "node.local_original" ->
                 Apply(Matrix4_read(buf, pos, Matrix4), "fixed", [pc |-> "node.source_id"])
             [] pc = "node.source_id" ->
                 Apply(read_string(buf, pos), "string", [pc |-> "node.flag",
                       stack |-> SetTop([f EXCEPT !.sec = 1])])
             [] pc = "node.flag" ->
                 LET r == read_u8(buf, pos)
                     nxt == NextSection(f.version, f.sec)
                 IN  IF r.val # 0 /\ f.sec = MeshSection
                     THEN \* node.mesh = self._parse_mesh(reader)
                          Apply(r, "fixed", [pc |-> "mesh.version",
                                stack |-> SetTop([f EXCEPT !.sec = nxt]),
                                mesh |-> <<MeshData>>])
                     ELSE \* flag clear, or a _skip_* method, which is `pass`
                          Apply(r, "fixed", [pc |-> AfterSection(f.version, nxt),
                                stack |-> SetTop([f EXCEPT !.sec = nxt])])
             [] pc = "node.maya_node_id" ->
                 LET r == read_string(buf, pos)
                 IN  Apply(r, "string", [pc |-> "node.child_count",
                           heap |-> [heap EXCEPT ![n].maya_node_id = r.val]])
             [] pc = "node.child_count" ->
                 LET r == read_i32(buf, pos)
                     child == Len(heap) + 1
                 IN  IF r.val > 0
                     THEN Apply(r, "fixed", [pc |-> "node.version",
                              heap |-> Append(heap, TPLNode(0, <<>>)),
                              stack |-> Append(SetTop([f EXCEPT !.remaining = r.val]),
                                               NewFrame(child))])
                     ELSE Apply(r, "fixed", [pc |-> "node.return"])

\* `return node` of _parse_node: back in the caller, which is the child loop
\* of the parent frame, or _parse (self.root = ...; return True), or the
\* code that called _parse_node itself
USF_node_return ==
    /\ parser.kind = "USF" /\ parser.status = "running"
    /\ pc = "node.return"
    /\ UNCHANGED <<fs, entry, lt, reader, mesh>>
    /\ LET f == Top
           rest == SubSeq(stack, 1, Len(stack) - 1)
       IN  IF rest = <<>>
           THEN /\ stack' = <<>>
                /\ heap' = heap
                /\ pc' = "idle"
                /\ IF entry = "_parse_node"
                   THEN /\ parser' = [parser EXCEPT !.status = "returned"]
                        /\ loc' = [returned |-> f.node]
                   ELSE /\ parser' = [parser EXCEPT !.root = f.node, !.status = "true"]
                        /\ loc' = loc
           ELSE LET p == rest[Len(rest)]
                    h == [heap EXCEPT ![f.node].parent = p.node,
                                      ![p.node].children = Append(@, f.node)]
                IN  /\ parser' = parser
                    /\ loc' = loc
                    /\ IF p.remaining > 1
                       THEN /\ heap' = Append(h, TPLNode(0, <<>>))
                            /\ stack' = Append([rest EXCEPT ![Len(rest)].remaining = @ - 1],
                                               NewFrame(Len(h) + 1))
                            /\ pc' = "node.version"
                       ELSE /\ heap' = h
                            /\ stack' = [rest EXCEPT ![Len(rest)].remaining = @ - 1]
                            /\ pc' = "node.return"

\* except Exception in USFParser._parse / USFParser.load: return False
USF_parse_except ==
    /\ parser.kind = "USF" /\ parser.status = "running"
    /\ pc = "usf.raise"
    /\ entry # "_parse_node"
    /\ parser' = [parser EXCEPT !.status = "false"]
    /\ pc' = "idle"
    /\ UNCHANGED <<fs, entry, lt, heap, reader, stack, mesh, loc>>

\* _parse_node called on its own: the exception reaches the caller
USF_node_propagate ==
    /\ parser.kind = "USF" /\ parser.status = "running"
    /\ pc = "usf.raise"
    /\ entry = "_parse_node"
    /\ parser' = [parser EXCEPT !.status = "raised"]
    /\ pc' = "idle"
    /\ UNCHANGED <<fs, entry, lt, heap, reader, stack, mesh, loc>>

(***************************************************************************)
(* USFParser._parse_mesh.                                                  *)
(***************************************************************************)
\* str(i) for i >= 0, as code points
RECURSIVE FormatInt(_)
FormatInt(i) == IF i < 10 THEN <<48 + i>> ELSE Append(FormatInt(i \div 10), 48 + (i % 10))

\* f"uv{i}"
SynthUVName(i) == <<117, 118>> \o FormatInt(i)

\* UVSet(uvs, name)
UVSet(uvs, name) == [uvs |-> uvs, name |-> name]

\* whether the stream holds the name of a UV set
UVNameInStream_Always(version) == TRUE
UVNameInStream(version) == version >= MeshUVNameVersion

\* (r, g, b, a) of a packed colour, each in 255ths: byte k of the
\* little-endian word is (packed >> 8k) & 0xFF
UnpackColor(word) == <<ByteAt(word, 1), ByteAt(word, 2), ByteAt(word, 3), ByteAt(word, 4)>>

\* data & 0x1FFFFFFF of a little-endian word
MaterialIndex(word) ==
    (ByteAt(word, 4) % 32) * 16777216 + ByteAt(word, 3) * 65536
        + ByteAt(word, 2) * 256 + ByteAt(word, 1)

\* Material(name); texture_name and shader_name, which PropertySection
\* extracts from the property blob, are not part of this model
Material(name) == [name |-> name]

\* VertexSkin / Bone
VertexSkin(bone_indices, weights) == [bone_indices |-> bone_indices, weights |-> weights]
Bone(node_uid, bind_matrix) == [node_uid |-> node_uid, bind_matrix |-> bind_matrix]

MeshLocals == [version |-> 0, n |-> 0, m |-> 0, i |-> 0, cur |-> <<>>, bpv |-> 0]

\* the statements that follow each part of _parse_mesh
AfterNormals(v) == IF v < MeshColorSetsVersion THEN "mesh.color_count" ELSE "mesh.color_set_count"
AfterUVSets(v) == IF v >= MeshTangentsVersion THEN "mesh.tangent_set_count" ELSE "mesh.face_count"
AfterSkins(v) == IF v >= MeshSkinningMethodVersion THEN "mesh.skinning_method" ELSE "mesh.bone_count"
AfterPairs(v) == IF v >= MeshBlendShapesVersion THEN "mesh.blend_count" ELSE "mesh.return"
AfterBones(v) == IF v >= MeshBonePairsVersion THEN "mesh.pair_count" ELSE AfterPairs(v)

\* struct.unpack(f'<{n}i', reader.read(4 * n)): a negative n is a bad format
read_counted(buf, pos, n) ==
    LET r == BytesIO_read_scaled(buf, pos, n, 4)
        size == IF n > Len(buf) THEN 4 * Len(buf) + 4 ELSE 4 * n
    IN  [raised |-> n < 0 \/ ~struct_unpack_ok(r.data, size),
         val |-> [i \in 1..(Len(r.data) \div 4) |-> I32At(r.data, 4 * i - 4)],
         pos |-> r.pos, short |-> r.short]

UsfMeshLabels ==
    {"mesh.version", "mesh.vertex_count", "mesh.vertex", "mesh.normal_count",
     "mesh.normal", "mesh.color_count", "mesh.color", "mesh.color_set_count",
     "mesh.color_set.count", "mesh.color_set.color", "mesh.uv_set_count",
     "mesh.uv_count", "mesh.uv", "mesh.uv_name", "mesh.tangent_set_count",
     "mesh.tangent_count", "mesh.tangent", "mesh.face_count", "mesh.face",
     "mesh.material_count", "mesh.mat_name", "mesh.mat_version", "mesh.mat_vcu",
     "mesh.mat_data", "mesh.bones_per_vertex", "mesh.skin_count", "mesh.skin",
     "mesh.skinning_method", "mesh.bone_count", "mesh.bone", "mesh.pair_count",
     "mesh.pair_skip", "mesh.blend_count", "mesh.blend_key"}

\* USFParser._parse_mesh, one read per step (a skin and a bone are two reads)
USF_parse_mesh ==
    /\ parser.kind = "USF" /\ parser.status = "running"
    /\ pc \in UsfMeshLabels
    /\ UNCHANGED <<fs, entry, lt>>
    /\ LET buf == reader.buf
           pos == reader.pos
           md == mesh[1]
           v == loc.version
           \* the end of one pass of a loop: again while passes remain
           Loop(left, again, after) == IF left > 0 THEN again ELSE after
           \* mesh.uv_sets.append(uv_set), end of one pass of the UV-set loop
           UVSetDone(uvs, name) ==
               [pc |-> Loop(loc.m - 1, "mesh.uv_count", AfterUVSets(v)),
                mesh |-> <<[md EXCEPT !.uv_sets = Append(@, UVSet(uvs, name))]>>,
                loc |-> [loc EXCEPT !.m = @ - 1, !.i = @ + 1, !.cur = <<>>]]
           \* after the coordinates of a UV set
           UVCoordsDone(uvs) ==
               IF UVNameInStream(v)
               THEN [pc |-> "mesh.uv_name", loc |-> [loc EXCEPT !.cur = uvs, !.n = 0]]
               ELSE UVSetDone(uvs, SynthUVName(loc.i))
           \* mesh.materials.append(mat), end of one pass of the material loop
           MaterialDone ==
               [pc |-> Loop(loc.m - 1, "mesh.mat_name", "mesh.bones_per_vertex"),
                mesh |-> <<[md EXCEPT !.materials = Append(@, Material(loc.cur))]>>,
                loc |-> [loc EXCEPT !.m = @ - 1, !.cur = <<>>]]
       IN  CASE pc = "mesh.version" ->
                 LET r == read_i32(buf, pos)
                 IN  Apply(r, "fixed", [pc |-> "mesh.vertex_count",
                           loc |-> [MeshLocals EXCEPT !.version = r.val]])
             [] pc = "mesh.vertex_count" ->
                 LET r == read_i32(buf, pos)
                 IN  Apply(r, "fixed", [pc |-> Loop(r.val, "mesh.vertex", "mesh.normal_count"),
                           loc |-> [loc EXCEPT !.n = r.val]])
             [] pc = "mesh.vertex" ->
                 LET r == read_floats(buf, pos, 3)
                 IN  Apply(r, "fixed", [pc |-> Loop(loc.n - 1, "mesh.vertex", "mesh.normal_count"),
                           mesh |-> <<[md EXCEPT !.vertices = Append(@, r.val)]>>,
                           loc |-> [loc EXCEPT !.n = @ - 1]])
             [] pc = "mesh.normal_count" ->
                 LET r == read_i32(buf, pos)
                 IN  Apply(r, "fixed", [pc |-> Loop(r.val, "mesh.normal", AfterNormals(v)),
                           loc |-> [loc EXCEPT !.n = r.val]])
             [] pc = "mesh.normal" ->
                 LET r == read_floats(buf, pos, 3)
                 IN  Apply(r, "fixed", [pc |-> Loop(loc.n - 1, "mesh.normal", AfterNormals(v)),
                           mesh |-> <<[md EXCEPT !.normals = Append(@, r.val)]>>,
                           loc |-> [loc EXCEPT !.n = @ - 1]])
             [] pc = "mesh.color_count" ->
                 LET r == read_i32(buf, pos)
                 IN  Apply(r, "fixed", [pc |-> Loop(r.val, "mesh.color", "mesh.uv_set_count"),
                           loc |-> [loc EXCEPT !.n = r.val, !.cur = <<>>]])
             [] pc = "mesh.color" ->
                 LET r == read_u32(buf, pos)
                     cs == Append(loc.cur, UnpackColor(r.val))
                 IN  IF loc.n - 1 > 0
                     THEN Apply(r, "fixed", [pc |-> "mesh.color",
                              loc |-> [loc EXCEPT !.n = @ - 1, !.cur = cs]])
                     ELSE Apply(r, "fixed", [pc |-> "mesh.uv_set_count",
                              mesh |-> <<[md EXCEPT !.colors = Append(@, cs)]>>,
                              loc |-> [loc EXCEPT !.n = @ - 1, !.cur = <<>>]])
             [] pc = "mesh.color_set_count" ->
                 LET r == read_i32(buf, pos)
                 IN  Apply(r, "fixed", [pc |-> Loop(r.val, "mesh.color_set.count", "mesh.uv_set_count"),
                           loc |-> [loc EXCEPT !.m = r.val]])
             [] pc = "mesh.color_set.count" ->
                 LET r == read_i32(buf, pos)
                 IN  IF r.val > 0
                     THEN Apply(r, "fixed", [pc |-> "mesh.color_set.color",
                              loc |-> [loc EXCEPT !.n = r.val, !.cur = <<>>]])
                     ELSE Apply(r, "fixed",
                              [pc |-> Loop(loc.m - 1, "mesh.color_set.count", "mesh.uv_set_count"),
                               mesh |-> <<[md EXCEPT !.colors = Append(@, <<>>)]>>,
                               loc |-> [loc EXCEPT !.m = @ - 1, !.n = r.val, !.cur = <<>>]])
             [] pc = "mesh.color_set.color" ->
                 LET r == read_u32(buf, pos)
                     cs == Append(loc.cur, UnpackColor(r.val))
                 IN  IF loc.n - 1 > 0
                     THEN Apply(r, "fixed", [pc |-> "mesh.color_set.color",
                              loc |-> [loc EXCEPT !.n = @ - 1, !.cur = cs]])
                     ELSE Apply(r, "fixed",
                              [pc |-> Loop(loc.m - 1, "mesh.color_set.count", "mesh.uv_set_count"),
                               mesh |-> <<[md EXCEPT !.colors = Append(@, cs)]>>,
                               loc |-> [loc EXCEPT !.m = @ - 1, !.n = @ - 1, !.cur = <<>>]])
             [] pc = "mesh.uv_set_count" ->
                 LET r == read_i32(buf, pos)
                 IN  Apply(r, "fixed", [pc |-> Loop(r.val, "mesh.uv_count", AfterUVSets(v)),
                           loc |-> [loc EXCEPT !.m = r.val, !.i = 0]])
             [] pc = "mesh.uv_count" ->
                 LET r == read_i32(buf, pos)
                 IN  IF r.val > 0
                     THEN Apply(r, "fixed", [pc |-> "mesh.uv",
                              loc |-> [loc EXCEPT !.n = r.val, !.cur = <<>>]])
                     ELSE Apply(r, "fixed", UVCoordsDone(<<>>))
             [] pc = "mesh.uv" ->
                 LET r == read_floats(buf, pos, 2)
                     uvs == Append(loc.cur, r.val)
                 IN  IF loc.n - 1 > 0
                     THEN Apply(r, "fixed", [pc |-> "mesh.uv",
                              loc |-> [loc EXCEPT !.n = @ - 1, !.cur = uvs]])
                     ELSE Apply(r, "fixed", UVCoordsDone(uvs))
             [] pc = "mesh.uv_name" ->
                 LET r == read_string(buf, pos)
                 IN  Apply(r, "string", UVSetDone(loc.cur, r.val))
             [] pc = "mesh.tangent_set_count" ->
                 LET r == read_i32(buf, pos)
                 IN  Apply(r, "fixed", [pc |-> Loop(r.val, "mesh.tangent_count", "mesh.face_count"),
                           loc |-> [loc EXCEPT !.m = r.val]])
             [] pc = "mesh.tangent_count" ->
                 LET r == read_i32(buf, pos)
                 IN  IF r.val > 0
                     THEN Apply(r, "fixed", [pc |-> "mesh.tangent",
                              loc |-> [loc EXCEPT !.n = r.val]])
                     ELSE Apply(r, "fixed",
                              [pc |-> Loop(loc.m - 1, "mesh.tangent_count", "mesh.face_count"),
                               loc |-> [loc EXCEPT !.m = @ - 1, !.n = r.val]])
             [] pc = "mesh.tangent" ->
                 LET r == read_floats(buf, pos, 4)
                     md2 == [md EXCEPT !.tangents = Append(@, r.val)]
                 IN  IF loc.n - 1 > 0
                     THEN Apply(r, "fixed", [pc |-> "mesh.tangent", mesh |-> <<md2>>,
                              loc |-> [loc EXCEPT !.n = @ - 1]])
                     ELSE Apply(r, "fixed",
                              [pc |-> Loop(loc.m - 1, "mesh.tangent_count", "mesh.face_count"),
                               mesh |-> <<md2>>,
                               loc |-> [loc EXCEPT !.m = @ - 1, !.n = @ - 1]])
             [] pc = "mesh.face_count" ->
                 LET r == read_i32(buf, pos)
                 IN  Apply(r, "fixed", [pc |-> Loop(r.val, "mesh.face", "mesh.material_count"),
                           loc |-> [loc EXCEPT !.n = r.val]])
             [] pc = "mesh.face" ->
                 LET r == read_u32(buf, pos)
                 IN  Apply(r, "fixed", [pc |-> Loop(loc.n - 1, "mesh.face", "mesh.material_count"),
                           mesh |-> <<[md EXCEPT !.faces = Append(@, Face(MaterialIndex(r.val), 0, 0))]>>,
                           loc |-> [loc EXCEPT !.n = @ - 1]])
             [] pc = "mesh.material_count" ->
                 LET r == read_i32(buf, pos)
                 IN  Apply(r, "fixed", [pc |-> Loop(r.val, "mesh.mat_name", "mesh.bones_per_vertex"),
                           loc |-> [loc EXCEPT !.m = r.val]])
             [] pc = "mesh.mat_name" ->
                 LET r == read_string(buf, pos)
                 IN  Apply(r, "string", [pc |-> "mesh.mat_version",
                           loc |-> [loc EXCEPT !.cur = r.val]])
             [] pc = "mesh.mat_version" ->
                 LET r == read_i32(buf, pos)
                 IN  IF r.val >= MaterialDataVersion
                     THEN Apply(r, "fixed", [pc |-> "mesh.mat_vcu"])
                     ELSE Apply(r, "fixed", MaterialDone)
             [] pc = "mesh.mat_vcu" ->
                 Apply(read_u32(buf, pos), "fixed", [pc |-> "mesh.mat_data"])
             [] pc = "mesh.mat_data" ->
                 Apply(read_string(buf, pos), "string", MaterialDone)
             [] pc = "mesh.bones_per_vertex" ->
                 LET r == read_i32(buf, pos)
                 IN  Apply(r, "fixed", [pc |-> "mesh.skin_count",
                           loc |-> [loc EXCEPT !.bpv = r.val]])
             [] pc = "mesh.skin_count" ->
                 LET r == read_i32(buf, pos)
                 IN  Apply(r, "fixed", [pc |-> Loop(r.val, "mesh.skin", AfterSkins(v)),
                           loc |-> [loc EXCEPT !.n = r.val]])
             [] pc = "mesh.skin" ->
                 LET bi == read_counted(buf, pos, loc.bpv)
                     w == read_counted(buf, bi.pos, loc.bpv)
                     r == IF bi.raised THEN bi
                          ELSE [w EXCEPT !.short = bi.short \/ w.short]
                 IN  Apply(r, "fixed", [pc |-> Loop(loc.n - 1, "mesh.skin", AfterSkins(v)),
                           mesh |-> <<[md EXCEPT !.skins = Append(@, VertexSkin(bi.val, w.val))]>>,
                           loc |-> [loc EXCEPT !.n = @ - 1]])
             [] pc = "mesh.skinning_method" ->
                 Apply(read_u8(buf, pos), "fixed", [pc |-> "mesh.bone_count"])
             [] pc = "mesh.bone_count" ->
                 LET r == read_i32(buf, pos)
                 IN  Apply(r, "fixed", [pc |-> Loop(r.val, "mesh.bone", AfterBones(v)),
                           loc |-> [loc EXCEPT !.n = r.val]])
             [] pc = "mesh.bone" ->
                 LET u == read_i32(buf, pos)
                     b == Matrix4_read(buf, u.pos, Matrix4)
                     r == IF u.raised THEN u
                          ELSE [b EXCEPT !.short = u.short \/ b.short]
                 IN  Apply(r, "fixed", [pc |-> Loop(loc.n - 1, "mesh.bone", AfterBones(v)),
                           mesh |-> <<[md EXCEPT !.bones = Append(@, Bone(u.val, b.val))]>>,
                           loc |-> [loc EXCEPT !.n = @ - 1]])
             [] pc = "mesh.pair_count" ->
                 LET r == read_i32(buf, pos)
                 IN  Apply(r, "fixed", [pc |-> "mesh.pair_skip",
                           loc |-> [loc EXCEPT !.n = r.val]])
             [] pc = "mesh.pair_skip" ->
                 \* reader.read(pair_count * 8): read() never raises
                 LET d == BytesIO_read_scaled(buf, pos, loc.n, 8)
                 IN  Apply([raised |-> FALSE, val |-> d.data, pos |-> d.pos, short |-> d.short],
                           "skip", [pc |-> AfterPairs(v)])
             [] pc = "mesh.blend_count" ->
                 LET r == read_i32(buf, pos)
                 IN  Apply(r, "fixed", [pc |-> Loop(r.val, "mesh.blend_key", "mesh.return"),
                           loc |-> [loc EXCEPT !.n = r.val]])
             [] pc = "mesh.blend_key" ->
                 LET r == read_string(buf, pos)
                 IN  Apply(r, "string", [pc |-> Loop(loc.n - 1, "mesh.blend_key", "mesh.return"),
                           loc |-> [loc EXCEPT !.n = @ - 1]])

\* `return mesh` of _parse_mesh, and node.mesh = ... in _parse_node
USF_mesh_return ==
    /\ parser.kind = "USF" /\ parser.status = "running"
    /\ pc = "mesh.return"
    /\ heap' = [heap EXCEPT ![Top.node].mesh = mesh]
    /\ mesh' = <<>>
    /\ pc' = AfterSection(Top.version, Top.sec)
    /\ UNCHANGED <<fs, entry, lt, parser, reader, stack, loc>>

(***************************************************************************)
(* SERParser.                                                              *)
(***************************************************************************)
\* bytes.find(pat): the first 0-based offset of pat, -1 when absent
Find(buf, pat) ==
    LET at == {i \in 0..(Len(buf) - Len(pat)) : SubSeq(buf, i + 1, i + Len(pat)) = pat}
    IN  IF at = {} THEN -1 ELSE CHOOSE i \in at : \A j \in at : i <= j

\* struct.unpack_from(fmt, data, pos) raises unless size bytes lie at pos
unpack_from_ok(data, pos, size) == pos + size <= Len(data)

\* '<I' kept within 32 signed bits: values from 2^31 on are held at 2^31 - 1
\* (the code only compares a '<I' value with 0 and 256)
U32(word) == IF ByteAt(word, 4) >= 128 THEN 2147483647 ELSE I32(word)

\* bytes.decode('utf-8') on the input alphabet: raises on any byte >= 0x80
DecodeStrictOk(data) == \A i \in 1..Len(data) : data[i] < 128

\* str.rstrip('\0')
RECURSIVE RStripNul(_)
RStripNul(str) ==
    IF str # <<>> /\ str[Len(str)] = 0 THEN RStripNul(SubSeq(str, 1, Len(str) - 1)) ELSE str

\* c.isalpha() on ASCII
IsAlpha(c) == (c >= 65 /\ c <= 90) \/ (c >= 97 /\ c <= 122)

SerMaxStringLength == 256
SerNameLimit == 100
SerNameSkip == 100
SerNameTail == 10

\* SERParser._read_string(pos): (str, new position)
SER_read_string_StopsAfterLength(data, pos) ==
    IF pos + 4 > Len(data) THEN [val |-> <<>>, pos |-> pos]
    ELSE LET length == U32(SubSeq(data, pos + 1, pos + 4))
             p == pos + 4
             payload == SubSeq(data, p + 1, p + length)
         IN  IF length > SerMaxStringLength \/ length = 0 THEN [val |-> <<>>, pos |-> pos]
             ELSE IF p + length > Len(data) THEN [val |-> <<>>, pos |-> p]
             ELSE IF ~DecodeStrictOk(payload) THEN [val |-> <<>>, pos |-> p]
             ELSE [val |-> RStripNul(payload), pos |-> p]
SER_read_string(data, pos) ==
    IF pos + 4 > Len(data) THEN [val |-> <<>>, pos |-> pos]
    ELSE LET length == U32(SubSeq(data, pos + 1, pos + 4))
             p == pos + 4
             payload == SubSeq(data, p + 1, p + length)
         IN  IF length > SerMaxStringLength \/ length = 0 THEN [val |-> <<>>, pos |-> pos]
             ELSE IF p + length > Len(data) THEN [val |-> <<>>, pos |-> p]
             ELSE IF ~DecodeStrictOk(payload) THEN [val |-> <<>>, pos |-> p]
             ELSE [val |-> RStripNul(payload), pos |-> p + length]

\* the test of _parse_object_names on a candidate
NameAccepted_FromOneChar(name) ==
    /\ name # <<>> /\ Len(name) > 0 /\ Len(name) < SerNameLimit
    /\ \E i \in 1..Len(name) : IsAlpha(name[i])
NameAccepted(name) ==
    /\ name # <<>> /\ Len(name) > 1 /\ Len(name) < SerNameLimit
    /\ \E i \in 1..Len(name) : IsAlpha(name[i])

IntTimes090_At080(n) == (n * 4) \div 5

\* int(data_len * 0.8), int(data_len * 0.85), int(data_len * 0.9): the double
\* product truncates to the exact quotient for every length below 200000
IntTimes080(n) == (n * 4) \div 5
IntTimes085(n) == (n * 17) \div 20
IntTimes090(n) == (n * 9) \div 10

\* the largest power of two <= v, for v >= 1
RECURSIVE Pow2Below(_, _)
Pow2Below(v, k) == IF 2 * k <= v THEN Pow2Below(v, 2 * k) ELSE k

\* int(data_len * 0.7): 0.7 is the double 0.7 * (1 - (4/7) * 2^-53), so for a
\* multiple of 10 the product rounds below the integer 7n/10 exactly when the
\* significand of 7n/10 exceeds 1.75, and truncates to one less
IntTimes070(n) ==
    LET v == (n * 7) \div 10
    IN  IF n % 10 = 0 /\ v > 0 /\ 4 * v > 7 * Pow2Below(v, 1) THEN v - 1 ELSE v

FaceProbeCount == 100
FaceProbeThreshold == 80
MaxExpectedIndex == 100000
MaxFaceBytes == 1000000

\* the three '<HHH' indices at offset
Triangle(data, offset) ==
    <<U16(SubSeq(data, offset + 1, offset + 2)), U16(SubSeq(data, offset + 3, offset + 4)),
      U16(SubSeq(data, offset + 5, offset + 6))>>

\* the test of _find_face_data_offset on one record
LooksLikeFace_NoDegenerateTest(t) ==
    t[1] < MaxExpectedIndex /\ t[2] < MaxExpectedIndex /\ t[3] < MaxExpectedIndex
LooksLikeFace(t) ==
    /\ t[1] < MaxExpectedIndex /\ t[2] < MaxExpectedIndex /\ t[3] < MaxExpectedIndex
    /\ t[1] # t[2] /\ t[2] # t[3] /\ t[1] # t[3]

\* valid_count of the candidate test_pos (already aligned)
ValidCount(data, test_pos) ==
    Cardinality({i \in 0..(FaceProbeCount - 1) :
                    /\ test_pos + i * 6 + 6 <= Len(data)
                    /\ LooksLikeFace(Triangle(data, test_pos + i * 6))})

\* test_positions, in the order the code tries them
TestPositions(data_len) ==
    <<IntTimes080(data_len), IntTimes085(data_len), IntTimes090(data_len),
      IntTimes070(data_len)>>

\* SERParser._find_face_data_offset
SER_find_face_data_offset_AtLeast80(data) ==
    LET tp == TestPositions(Len(data))
        aligned(k) == (tp[k] \div 6) * 6
        hits == {k \in 1..4 : ValidCount(data, aligned(k)) >= FaceProbeThreshold}
    IN  IF hits = {} THEN 0
        ELSE aligned(CHOOSE k \in hits : \A j \in hits : k <= j)
SER_find_face_data_offset(data) ==
    LET tp == TestPositions(Len(data))
        aligned(k) == (tp[k] \div 6) * 6
        hits == {k \in 1..4 : ValidCount(data, aligned(k)) > FaceProbeThreshold}
    IN  IF hits = {} THEN 0
        ELSE aligned(CHOOSE k \in hits : \A j \in hits : k <= j)

\* a call of SERParser._find_face_data_offset on a parser holding the blob
SER_find_face ==
    /\ entry = "_find_face_data_offset" /\ pc = "ser.find_face"
    /\ parser.status = "running"
    /\ loc' = [face_offset |-> SER_find_face_data_offset(parser.tpl_geom_data)]
    /\ parser' = [parser EXCEPT !.status = "returned"]
    /\ pc' = "idle"
    /\ UNCHANGED <<fs, entry, lt, heap, reader, stack, mesh>>

\* sign_f
sign_f(x) == IF x > 0 THEN 1 ELSE IF x < 0 THEN -1 ELSE 0

\* decompress_normal_from_int16(w).  With a = |w|, frac((1/181) a) is
\* (a mod 181)/181 and frac((1/181/181) a) is (a mod 181^2)/181^2, except
\* that the double product falls just below 1 resp. 2 for a = 32761 and
\* a = 65522, where frac is 1 - ulp.  The result is kept as
\*   x = xn / 179,  z = zn / (181 * 180),  y = sign * sqrt(saturate(1 - x^2 - z^2)).
decompress_normal_NoSpecialCase(w) ==
    LET a == IF w < 0 THEN -w ELSE w
    IN  [xn |-> 2 * (a % 181) - 181, zn |-> 2 * (a % 32761) - 32761, sign |-> sign_f(w)]
decompress_normal_from_int16(w) ==
    LET w0 == IF w = -32768 THEN 0 ELSE w
        a == IF w0 < 0 THEN -w0 ELSE w0
        fx == a % 181
        fz == IF a = 32761 \/ a = 65522 THEN 32761 ELSE a % 32761
    IN  [xn |-> 2 * fx - 181, zn |-> 2 * fz - 32761, sign |-> sign_f(w0)]

\* a call decompress_normal_from_int16(w)
Normal_call ==
    /\ entry = "decompress_normal_from_int16" /\ pc = "normal.call"
    /\ loc' = [w |-> loc.w, normal |-> decompress_normal_from_int16(loc.w)]
    /\ pc' = "idle"
    /\ UNCHANGED <<fs, entry, lt, heap, parser, reader, stack, mesh>>

\* the vertex loop of _parse_geometry from record i on: 8-byte records
\* '<hhhH'; a position is kept in hundredths (POSITION_SCALE = 0.01), and
\* its key round(., 4) identifies it, x * 0.01 being a different 4-decimal
\* number for every int16 x
\* pos_key = (round(pos[0], 4), ...), in ten-thousandths
PosKey_WithoutX(pos) == [c \in 2..3 |-> 100 * pos[c]]
PosKey(pos) == [c \in 1..3 |-> 100 * pos[c]]

RECURSIVE ParseVertices(_, _, _, _)
ParseVertices(data, i, vertex_count, m) ==
    IF i >= vertex_count \/ i * 8 + 8 > Len(data) THEN m
    ELSE LET o == i * 8
             pos == <<I16(SubSeq(data, o + 1, o + 2)), I16(SubSeq(data, o + 3, o + 4)),
                      I16(SubSeq(data, o + 5, o + 6))>>
             packed == U16(SubSeq(data, o + 7, o + 8))
             seen == \E k \in 1..Len(m.vertices) : PosKey(m.vertices[k]) = PosKey(pos)
         IN  ParseVertices(data, i + 1, vertex_count,
                 IF seen THEN m
                 ELSE [m EXCEPT !.vertices = Append(@, pos),
                                !.normals = Append(@, decompress_normal_from_int16(packed))])

\* the face loop of _parse_geometry from record i on
RECURSIVE ParseFaces(_, _, _, _, _)
ParseFaces(data, face_offset, i, count, m) ==
    IF i >= count \/ face_offset + i * 6 + 6 > Len(data) THEN m
    ELSE LET t == Triangle(data, face_offset + i * 6)
             max_vertex_idx == Len(m.vertices)
         IN  ParseFaces(data, face_offset, i + 1, count,
                 IF t[1] < max_vertex_idx /\ t[2] < max_vertex_idx /\ t[3] < max_vertex_idx
                 THEN [m EXCEPT !.faces = Append(@, Face(t[1], t[2], t[3]))]
                 ELSE m)

\* the MeshData _parse_geometry builds from the geometry blob
SER_geometry_mesh(data) ==
    LET data_len == Len(data)
        found == SER_find_face_data_offset(data)
        face_offset == IF found > 0 THEN found ELSE IntTimes090(data_len)
        vertex_data_end == face_offset
        withVertices == ParseVertices(data, 0, vertex_data_end \div 8, MeshData)
        face_data_size == Min(data_len - face_offset, MaxFaceBytes)
    IN  ParseFaces(data, face_offset, 0, face_data_size \div 6, withVertices)

\* "mesh" and ".root."
NameMesh == <<109, 101, 115, 104>>
NameRoot == <<46, 114, 111, 111, 116, 46>>

\* SERParser()
NewSERParser ==
    [kind |-> "SER", status |-> "running", root |-> None, version |-> 0,
     source_path |-> <<>>, file_type |-> <<>>,
     tpl_data |-> <<>>, tpl_geom_data |-> <<>>, objects |-> <<>>,
     buffer_count |-> 0, mesh_count |-> 0, object_count |-> 0, submesh_count |-> 0]

\* USFParser()
NewUSFParser ==
    [kind |-> "USF", status |-> "running", root |-> None, version |-> 0,
     source_path |-> <<>>, file_type |-> <<>>,
     tpl_data |-> <<>>, tpl_geom_data |-> <<>>, objects |-> <<>>,
     buffer_count |-> 0, mesh_count |-> 0, object_count |-> 0, submesh_count |-> 0]

NoParser == [NewUSFParser EXCEPT !.kind = "none", !.status = "none"]

\* SERParser.load: the two paths, the main file, the magic, the geometry file
SER_load ==
    /\ parser.kind = "SER" /\ parser.status = "running" /\ pc = "ser.load"
    /\ UNCHANGED <<fs, entry, lt, heap, reader, stack, mesh, loc>>
    /\ IF ~fs.tpl_file_exists
       THEN \* TPL file not found
            /\ parser' = [parser EXCEPT !.status = "false"] /\ pc' = "idle"
       ELSE IF SubSeq(fs.data, 1, Min(4, Len(fs.data))) # Magic1SER
       THEN \* Not a 1SER format file
            /\ parser' = [parser EXCEPT !.status = "false", !.tpl_data = fs.data]
            /\ pc' = "idle"
       ELSE /\ parser' = [parser EXCEPT !.tpl_data = fs.data,
                              !.tpl_geom_data = IF fs.has_sibling THEN fs.geom ELSE @]
            /\ pc' = "ser.parse_tpl1"

\* SERParser._parse_tpl1
SER_parse_tpl1 ==
    /\ parser.kind = "SER" /\ parser.status = "running" /\ pc = "ser.parse_tpl1"
    /\ UNCHANGED <<fs, entry, lt, heap, reader, stack, mesh, loc>>
    /\ LET data == parser.tpl_data
           at == Find(data, MagicTPL1)
       IN  IF at < 0
           THEN /\ parser' = [parser EXCEPT !.status = "false"] /\ pc' = "idle"
           ELSE IF ~unpack_from_ok(data, at + 4, 4)
           THEN /\ parser' = parser /\ pc' = "ser.raise"
           ELSE IF ~unpack_from_ok(data, at + 8, 4)
           THEN /\ parser' = [parser EXCEPT !.version = U32(SubSeq(data, at + 5, at + 8))]
                /\ pc' = "ser.raise"
           ELSE /\ parser' = [parser EXCEPT !.version = U32(SubSeq(data, at + 5, at + 8))]
                /\ pc' = "ser.parse_ogm1"

\* SERParser._parse_ogm1 up to the call of _parse_object_names, and the
\* first statements of _parse_object_names
SER_parse_ogm1 ==
    /\ parser.kind = "SER" /\ parser.status = "running" /\ pc = "ser.parse_ogm1"
    /\ UNCHANGED <<fs, entry, lt, heap, reader, stack, mesh>>
    /\ LET data == parser.tpl_data
           at == Find(data, MagicOGM1)
           p == at + 4
           H(o) == U16(SubSeq(data, o + 1, o + 2))
           anim == Find(data, MagicANIM)
       IN  IF at < 0
           THEN /\ parser' = [parser EXCEPT !.status = "false"] /\ pc' = "idle"
                /\ loc' = loc
           ELSE IF ~unpack_from_ok(data, p, 2)
           THEN /\ parser' = parser /\ pc' = "ser.raise" /\ loc' = loc
           ELSE IF ~unpack_from_ok(data, p + 4, 2)
           THEN /\ parser' = [parser EXCEPT !.buffer_count = H(p)]
                /\ pc' = "ser.raise" /\ loc' = loc
           ELSE IF ~unpack_from_ok(data, p + 6, 2)
           THEN /\ parser' = [parser EXCEPT !.buffer_count = H(p), !.mesh_count = H(p + 4)]
                /\ pc' = "ser.raise" /\ loc' = loc
           ELSE IF ~unpack_from_ok(data, p + 8, 2)
           THEN /\ parser' = [parser EXCEPT !.buffer_count = H(p), !.mesh_count = H(p + 4),
                                            !.object_count = H(p + 6)]
                /\ pc' = "ser.raise" /\ loc' = loc
           ELSE /\ parser' = [parser EXCEPT !.buffer_count = H(p), !.mesh_count = H(p + 4),
                                            !.object_count = H(p + 6),
                                            !.submesh_count = H(p + 8)]
                /\ pc' = "ser.object_names"
                /\ loc' = [pos |-> p + 10 + SerNameSkip,
                           ogm1_end |-> IF anim < 0 THEN Len(data) ELSE anim]

\* one pass of the while loop of _parse_object_names, or its exit, which
\* returns through _parse_ogm1 to _parse
SER_parse_object_names ==
    /\ parser.kind = "SER" /\ parser.status = "running" /\ pc = "ser.object_names"
    /\ UNCHANGED <<fs, entry, lt, reader, stack, mesh>>
    /\ IF loc.pos < loc.ogm1_end - SerNameTail
       THEN LET r == SER_read_string(parser.tpl_data, loc.pos)
            IN  /\ pc' = pc
                /\ IF NameAccepted(r.val)
                   THEN /\ heap' = Append(heap, TPLNode(Len(parser.objects), r.val))
                        /\ parser' = [parser EXCEPT !.objects = Append(@, Len(heap) + 1)]
                        /\ loc' = [loc EXCEPT !.pos = r.pos]
                   ELSE /\ loc' = [loc EXCEPT !.pos = @ + 1]
                        /\ UNCHANGED <<heap, parser>>
       ELSE /\ pc' = "ser.parse_geometry"
            /\ UNCHANGED <<heap, parser, loc>>

\* SERParser._parse_geometry
SER_parse_geometry ==
    /\ parser.kind = "SER" /\ parser.status = "running" /\ pc = "ser.parse_geometry"
    /\ UNCHANGED <<fs, entry, lt, reader, stack, mesh, loc>>
    /\ pc' = "ser.build_hierarchy"
    /\ IF parser.tpl_geom_data = <<>>
       THEN UNCHANGED <<heap, parser>>
       ELSE LET m == SER_geometry_mesh(parser.tpl_geom_data)
                mesh_node == Len(heap) + 1
            IN  /\ heap' = Append(heap, [TPLNode(0, NameMesh) EXCEPT !.mesh = <<m>>])
                /\ parser' = IF m.vertices # <<>> /\ m.faces # <<>>
                             THEN [parser EXCEPT !.objects = <<mesh_node>> \o @]
                             ELSE parser

\* the children SERParser._build_hierarchy gives the root
RECURSIVE AdoptAll(_, _, _)
AdoptAll(h, root, objs) ==
    IF objs = <<>> THEN h
    ELSE AdoptAll([h EXCEPT ![objs[1]].parent = root,
                            ![root].children = Append(@, objs[1])],
                  root, Tail(objs))

\* SERParser._build_hierarchy, and `return True` of _parse
SER_build_hierarchy ==
    /\ parser.kind = "SER" /\ parser.status = "running" /\ pc = "ser.build_hierarchy"
    /\ UNCHANGED <<fs, entry, lt, reader, stack, mesh, loc>>
    /\ pc' = "idle"
    /\ IF parser.objects # <<>>
       THEN LET root == Len(heap) + 1
            IN  /\ heap' = AdoptAll(Append(heap, TPLNode(-1, NameRoot)), root, parser.objects)
                /\ parser' = [parser EXCEPT !.root = root, !.status = "true"]
       ELSE /\ heap' = heap
            /\ parser' = [parser EXCEPT !.status = "true"]

\* except Exception in SERParser._parse: return False
SER_parse_except ==
    /\ parser.kind = "SER" /\ parser.status = "running" /\ pc = "ser.raise"
    /\ parser' = [parser EXCEPT !.status = "false"]
    /\ pc' = "idle"
    /\ UNCHANGED <<fs, entry, lt, heap, reader, stack, mesh, loc>>

\* USFParser.load: open(filepath, 'rb') raises for a missing path or a
\* directory (caught: return False); else reader = BytesIO(f.read())
USF_load ==
    /\ parser.kind = "USF" /\ parser.status = "running" /\ pc = "usf.load"
    /\ UNCHANGED <<fs, entry, lt, heap, stack, mesh, loc>>
    /\ IF fs.kind = "file"
       THEN /\ reader' = [buf |-> fs.data, pos |-> 0, short |-> {}]
            /\ pc' = "parse.version"
            /\ parser' = parser
       ELSE /\ reader' = reader
            /\ pc' = "idle"
            /\ parser' = [parser EXCEPT !.status = "false"]

\* a second parser.load(filepath) on the parser object whose first load has
\* returned: __init__ does not run again, so the fields keep their values;
\* the caller keeps the first call's result and root (first_nodes is the
\* number of node objects that existed when the second call began)
TwiceEntries == {"SERParser.load twice", "USFParser.load twice"}
Load_again(inputs) ==
    /\ entry \in TwiceEntries /\ pc = "idle"
    /\ parser.status \in {"true", "false"} /\ lt.calls = <<>>
    /\ fs' \in inputs
    /\ lt' = [lt EXCEPT !.calls = <<parser.kind>>,
                        !.outcomes = <<parser.status = "true">>,
                        !.result = <<[root |-> parser.root, first_nodes |-> Len(heap)]>>]
    /\ parser' = [parser EXCEPT !.status = "running"]
    /\ pc' = IF parser.kind = "SER" THEN "ser.load" ELSE "usf.load"
    /\ reader' = [buf |-> <<>>, pos |-> 0, short |-> {}]
    /\ stack' = <<>>
    /\ mesh' = <<>>
    /\ loc' = MeshLocals
    /\ UNCHANGED <<entry, heap>>

(***************************************************************************)
(* load_tpl.                                                               *)
(***************************************************************************)
TagUSF == "USF"
TagSER == "1SER"
TagUNKNOWN == "UNKNOWN"

\* the four places where load_tpl calls parser.load, by source line
Sites == {"L955", "L964", "L971", "L975"}

\* the parser class instantiated before each call
SiteParser(site) == IF site \in {"L955", "L971"} THEN "SER" ELSE "USF"

\* header[:4]
Header4(header) == SubSeq(header, 1, Min(4, Len(header)))

\* the first call of parser.load load_tpl reaches for a header
FirstSite_USFAlways(header) == "L964"
FirstSite(header) ==
    IF Header4(header) = Magic1SER THEN "L955"
    ELSE IF 0 < I32(Header4(header)) /\ I32(Header4(header)) < UsfVersionLimit THEN "L964"
    ELSE "L971"

\* what follows a parser.load that returned False: the next call, or
\* "return" when load_tpl returns
NextSite_GiveUp(site) == "return"
NextSite(site) ==
    CASE site = "L955" -> "return"
      [] site = "L964" -> "L971"
      [] site = "L971" -> "L975"
      [] site = "L975" -> "return"

\* the pair load_tpl returns after the call at site returned ok
load_tpl_result_NoRoot(site, ok, root) ==
    [root |-> None, tag |-> IF SiteParser(site) = "SER" THEN TagSER ELSE TagUSF]
load_tpl_result_TagOfLast(site, ok, root) ==
    IF ok THEN [root |-> root, tag |-> IF SiteParser(site) = "SER" THEN TagSER ELSE TagUSF]
    ELSE [root |-> None, tag |-> IF SiteParser(site) = "SER" THEN TagSER ELSE TagUSF]
load_tpl_result(site, ok, root) ==
    IF ok THEN [root |-> root, tag |-> IF SiteParser(site) = "SER" THEN TagSER ELSE TagUSF]
    ELSE IF site = "L955" THEN [root |-> None, tag |-> TagSER]
    ELSE [root |-> None, tag |-> TagUNKNOWN]

\* parser = SERParser() / USFParser(); parser.load(filepath)
CallLoad(site) ==
    /\ parser' = IF SiteParser(site) = "SER" THEN NewSERParser ELSE NewUSFParser
    /\ pc' = IF SiteParser(site) = "SER" THEN "ser.load" ELSE "usf.load"
    /\ reader' = [buf |-> <<>>, pos |-> 0, short |-> {}]
    /\ stack' = <<>>
    /\ mesh' = <<>>
    /\ loc' = MeshLocals

\* open(filepath, 'rb'); header = f.read(8); any exception: (None, 'UNKNOWN')
LoadTpl_open ==
    /\ entry = "load_tpl" /\ lt.pc = "open"
    /\ UNCHANGED <<fs, entry, heap, parser, reader, pc, stack, mesh, loc>>
    /\ IF fs.kind = "file"
       THEN lt' = [lt EXCEPT !.pc = "detect",
                             !.header = SubSeq(fs.data, 1, Min(HeaderSize, Len(fs.data)))]
       ELSE lt' = [lt EXCEPT !.pc = "returned",
                             !.result = <<[root |-> None, tag |-> TagUNKNOWN]>>]

\* the magic test and struct.unpack('<i', header[:4]), which is outside any
\* try block, then the first parser.load
LoadTpl_detect ==
    /\ entry = "load_tpl" /\ lt.pc = "detect"
    /\ UNCHANGED <<fs, entry, heap>>
    /\ IF Header4(lt.header) # Magic1SER /\ ~struct_unpack_ok(Header4(lt.header), 4)
       THEN /\ lt' = [lt EXCEPT !.pc = "raised"]
            /\ UNCHANGED <<parser, reader, pc, stack, mesh, loc>>
       ELSE /\ lt' = [lt EXCEPT !.pc = FirstSite(lt.header),
                                  !.calls = <<SiteParser(FirstSite(lt.header))>>]
            /\ CallLoad(FirstSite(lt.header))

\* a parser.load that returned False, followed by the next parser
LoadTpl_fallback ==
    /\ entry = "load_tpl" /\ lt.pc \in Sites
    /\ parser.status = "false"
    /\ NextSite(lt.pc) # "return"
    /\ lt' = [lt EXCEPT !.pc = NextSite(lt.pc),
                        !.calls = Append(@, SiteParser(NextSite(lt.pc))),
                        !.outcomes = Append(@, FALSE)]
    /\ CallLoad(NextSite(lt.pc))
    /\ UNCHANGED <<fs, entry, heap>>

\* the return statements of load_tpl after a parser.load
LoadTpl_return ==
    /\ entry = "load_tpl" /\ lt.pc \in Sites
    /\ parser.status \in {"true", "false"}
    /\ parser.status = "false" => NextSite(lt.pc) = "return"
    /\ lt' = [lt EXCEPT !.pc = "returned",
                        !.outcomes = Append(@, parser.status = "true"),
                        !.result = <<load_tpl_result(lt.pc, parser.status = "true",
                                                     parser.root)>>]
    /\ UNCHANGED <<fs, entry, heap, parser, reader, pc, stack, mesh, loc>>

(***************************************************************************)
(* Input files.  The encoders below build the byte streams the parsers     *)
(* are run on; they follow the layout of the format, not the parser.       *)
(***************************************************************************)
\* 4 bytes, little-endian, of a signed 32-bit value
EncI32(v) ==
    LET u == IF v < 0 THEN v + 2147483647 + 1 ELSE v
        b3 == u \div 16777216
    IN  <<u % 256, (u \div 256) % 256, (u \div 65536) % 256,
          IF v < 0 THEN b3 + 128 ELSE b3>>

EncU16(v) == <<v % 256, v \div 256>>

\* a length-prefixed string
EncStr(str) == EncI32(Len(str)) \o str

RECURSIVE Flatten(_)
Flatten(ss) == IF ss = <<>> THEN <<>> ELSE ss[1] \o Flatten(Tail(ss))

Zeros(n) == [i \in 1..n |-> 0]

\* a matrix as 16 floats
EncMatrix(m) == Flatten([i \in 1..16 |-> EncI32(m[i])])

\* "ab..." of length n
Letters(n) == [i \in 1..n |-> 96 + i]

\* a matrix that is not the identity: 2.0 (0x40000000) on the diagonal
Matrix2 == [i \in 1..16 |-> IF i \in {1, 6, 11, 16} THEN 1073741824 ELSE 0]

\* the file header of a USF stream
UsfHeader(version, source_path, has_root) ==
    EncI32(version) \o EncStr(source_path) \o EncStr(<<>>) \o EncStr(<<>>)
        \o EncI32(1) \o <<has_root>>

\* how many optional sections a node of this version has a flag for
FlagCount(nv) ==
    4 + Cardinality({t \in {258, 259, 260, 262, 263, 266, 268, 269, 270} : nv >= t})

\* one node frame: flagged is the set of sections whose flag is set,
\* meshBytes the mesh section (when section 2 is flagged)
NodeBytes(nv, uid, name, m, flagged, meshBytes, childCount, children) ==
    EncI32(nv) \o EncI32(uid) \o EncStr(name) \o EncStr(<<>>) \o EncStr(<<>>)
        \o EncI32(0) \o EncStr(<<>>)
        \o EncMatrix(m) \o EncMatrix(m) \o EncMatrix(m)
        \o EncStr(<<>>)
        \o Flatten([k \in 1..FlagCount(nv) |->
                       IF k \in flagged
                       THEN <<1>> \o (IF k = 2 THEN meshBytes ELSE <<>>)
                       ELSE <<0>>])
        \o (IF nv >= 267 THEN EncStr(name) ELSE <<>>)
        \o EncI32(childCount) \o children

\* the buffer "version, uid, three empty strings, empty property block,
\* three identity matrices, six zero flags, zero child count"; withSourceId
\* adds the empty source-id string that follows the matrices in the format
SixFlagNode(nv, uid, withSourceId) ==
    EncI32(nv) \o EncI32(uid) \o EncStr(<<>>) \o EncStr(<<>>) \o EncStr(<<>>)
        \o EncI32(0) \o EncStr(<<>>)
        \o EncMatrix(Matrix4) \o EncMatrix(Matrix4) \o EncMatrix(Matrix4)
        \o (IF withSourceId THEN EncStr(<<>>) ELSE <<>>)
        \o Zeros(6) \o EncI32(0)

\* n float triples / pairs with distinct small patterns
EncFloats(n, width) == Flatten([i \in 1..(n * width) |-> EncI32(F1 + i)])

\* the tail of a mesh section after the faces with no material, skin or bone
EmptyMeshTail(mv) ==
    EncI32(0) \o EncI32(0) \o EncI32(0)
        \o (IF mv >= 260 THEN <<0>> ELSE <<>>)
        \o EncI32(0)
        \o (IF mv >= 261 THEN EncI32(0) ELSE <<>>)
        \o (IF mv >= 262 THEN EncI32(0) ELSE <<>>)

\* a mesh section with nv vertices and normals, one UV set of nv
\* coordinates and one face-material record
SimpleMesh(mv, nvert, uvName) ==
    EncI32(mv)
        \o EncI32(nvert) \o EncFloats(nvert, 3)
        \o EncI32(nvert) \o EncFloats(nvert, 3)
        \o EncI32(0)
        \o EncI32(1) \o EncI32(nvert) \o EncFloats(nvert, 2)
        \o (IF mv >= 263 THEN EncStr(uvName) ELSE <<>>)
        \o (IF mv >= 259 THEN EncI32(0) ELSE <<>>)
        \o EncI32(1) \o EncI32(5)
        \o EmptyMeshTail(mv)

\* a mesh section whose counts differ: 2 vertices, 1 normal, one UV set
\* of 3 coordinates, no face
UnevenMesh(mv) ==
    EncI32(mv)
        \o EncI32(2) \o EncFloats(2, 3)
        \o EncI32(1) \o EncFloats(1, 3)
        \o EncI32(0)
        \o EncI32(1) \o EncI32(3) \o EncFloats(3, 2)
        \o (IF mv >= 263 THEN EncStr(<<>>) ELSE <<>>)
        \o (IF mv >= 259 THEN EncI32(0) ELSE <<>>)
        \o EncI32(0)
        \o EmptyMeshTail(mv)

\* a mesh section with one element in every list
RichMesh(mv, name) ==
    EncI32(mv)
        \o EncI32(1) \o EncFloats(1, 3)
        \o EncI32(1) \o EncFloats(1, 3)
        \o (IF mv < 258 THEN EncI32(1) \o <<10, 20, 30, 255>>
            ELSE EncI32(2) \o EncI32(1) \o <<10, 20, 30, 255>> \o EncI32(0))
        \o EncI32(1) \o EncI32(1) \o EncFloats(1, 2)
        \o (IF mv >= 263 THEN EncStr(name) ELSE <<>>)
        \o (IF mv >= 259 THEN EncI32(1) \o EncI32(1) \o EncFloats(1, 4) ELSE <<>>)
        \o EncI32(1) \o <<5, 0, 0, 160>>
        \o EncI32(2)
            \o EncStr(name) \o EncI32(266) \o EncI32(0) \o EncStr(name)
            \o EncStr(<<>>) \o EncI32(0)
        \o EncI32(1) \o EncI32(1) \o EncI32(0) \o EncI32(F1)
        \o (IF mv >= 260 THEN <<2>> ELSE <<>>)
        \o EncI32(1) \o EncI32(7) \o EncMatrix(Matrix2)
        \o (IF mv >= 261 THEN EncI32(1) \o Zeros(8) ELSE <<>>)
        \o (IF mv >= 262 THEN EncI32(1) \o EncStr(name) ELSE <<>>)

\* prefixes of a buffer
Prefix(buf, n) == SubSeq(buf, 1, n)

FsFile(data) ==
    [kind |-> "file", tpl_file_exists |-> TRUE, data |-> data,
     has_sibling |-> FALSE, geom |-> <<>>]
FsFileWithData(data, geom) ==
    [kind |-> "file", tpl_file_exists |-> TRUE, data |-> data,
     has_sibling |-> TRUE, geom |-> geom]
FsMissing ==
    [kind |-> "missing", tpl_file_exists |-> FALSE, data |-> <<>>,
     has_sibling |-> FALSE, geom |-> <<>>]
\* a directory D holding D/<name> (data) and D/<name>_data (geom)
FsDir(data, geom) ==
    [kind |-> "dir", tpl_file_exists |-> TRUE, data |-> data,
     has_sibling |-> TRUE, geom |-> geom]

NodeVersions == {257, 258, 259, 260, 267, 270}
MeshVersions == {257, 259, 262, 263}
Uids == {7, -3}
FileVersion == CHOOSE v \in {150} : TRUE

\* a chain of childless children
Children(nv, k) == Flatten([i \in 1..k |-> NodeBytes(nv, 100 + i, <<>>, Matrix4, {}, <<>>, 0, <<>>)])

\* well-formed USF files
UsfFiles ==
    {UsfHeader(FileVersion, src, 0) : src \in {<<>>, Letters(MaxNameLen)}}
    \cup {UsfHeader(FileVersion, <<>>, 1)
              \o NodeBytes(nv, uid, Letters(len), Matrix2, {}, <<>>, k, Children(nv, k)) :
              nv \in NodeVersions, uid \in Uids, len \in {0, MaxNameLen}, k \in 0..MaxChildren}
    \cup {UsfHeader(FileVersion, <<>>, 1)
              \o NodeBytes(263, 7, <<>>, Matrix4, {2}, SimpleMesh(mv, 3, Letters(len)), 0, <<>>) :
              mv \in MeshVersions, len \in {0, MaxNameLen}}
    \cup {UsfHeader(FileVersion, <<>>, 1)
              \o NodeBytes(263, 7, <<>>, Matrix4, {1, 2, 3, 9}, RichMesh(mv, Letters(MaxNameLen)), 0, <<>>) :
              mv \in {257, 263}}
    \cup {UsfHeader(FileVersion, <<>>, 1)
              \o NodeBytes(263, 7, <<>>, Matrix4, {2}, UnevenMesh(mv), 0, <<>>) :
              mv \in {257, 263}}

\* USF streams behind a first word outside (0, 1000)
UnknownHeaderFiles ==
    {UsfHeader(v, <<>>, 1) \o NodeBytes(259, 7, <<>>, Matrix4, {}, <<>>, 0, <<>>) :
        v \in {0, 1000, 2000, -1}}

\* a length prefix read_string rejects, then a well-formed rest
BadLengths == {0, -1, 10001, 65536}
BadLengthFiles ==
    {EncI32(FileVersion) \o EncI32(l) \o EncStr(<<>>) \o EncStr(<<>>) \o EncI32(1) \o <<1>>
         \o NodeBytes(259, 7, Letters(MaxNameLen), Matrix4, {}, <<>>, 0, <<>>) :
         l \in BadLengths}
    \cup {EncI32(FileVersion) \o EncI32(MaxStringLength) \o Letters(MaxNameLen)}

\* files that stop before the stream is complete
TruncationBases ==
    {UsfHeader(FileVersion, Letters(MaxNameLen), 1)
         \o NodeBytes(267, 7, Letters(MaxNameLen), Matrix2, {}, <<>>, 0, <<>>),
     UsfHeader(FileVersion, <<>>, 1)
         \o NodeBytes(263, 7, <<>>, Matrix4, {2}, RichMesh(263, Letters(MaxNameLen)), 0, <<>>)}
TruncatedFiles == UNION {{Prefix(b, n) : n \in 0..(Len(b) - 1)} : b \in TruncationBases}

\* files too short to hold a 4-byte word, and other short files
ShortFiles == {<<>>, <<1>>, <<49, 83, 69>>, <<150, 0, 0>>, <<150, 0, 0, 0>>, Magic1SER}

\* a 1SER container: TPL1 and OGM1 sections, the 100 skipped bytes, the
\* length-prefixed object names, and a tail
SerNames(k) == Flatten([i \in 1..k |-> EncStr(Letters(MaxNameLen))])
SerContainer(k, withAnim) ==
    Magic1SER \o Zeros(4)
        \o MagicTPL1 \o EncI32(3) \o EncI32(0)
        \o MagicOGM1 \o EncU16(1) \o EncU16(0) \o EncU16(1) \o EncU16(k) \o EncU16(1)
        \o Zeros(100) \o SerNames(k) \o Zeros(12)
        \o (IF withAnim THEN MagicANIM \o Zeros(4) ELSE <<>>)

SerContainers == {SerContainer(k, a) : k \in 0..MaxObjects, a \in BOOLEAN}

\* a 1SER container with the given bytes where the object names are looked
\* for; lead is put between the magic and the TPL1 section
NameContainer(lead, names) ==
    Magic1SER \o lead
        \o MagicTPL1 \o EncI32(3) \o EncI32(0)
        \o MagicOGM1 \o EncU16(1) \o EncU16(0) \o EncU16(1) \o EncU16(1) \o EncU16(1)
        \o Zeros(100) \o names \o Zeros(12)
\* candidates: "a", "12", "a\0", "ab\0", "1b", 99 and 100 letters 'a', a
\* byte that is not UTF-8, declared lengths 257 and 9 with 2 bytes present
NameCandidates ==
    {EncStr(<<97>>), EncStr(<<49, 50>>), EncStr(<<97, 0>>), EncStr(<<97, 98, 0>>),
     EncStr(<<49, 98>>), EncStr([i \in 1..99 |-> 97]), EncStr([i \in 1..100 |-> 97]),
     EncStr(<<97, 200>>), EncI32(257) \o <<97, 98>>, EncI32(9) \o <<97, 98>>}
NameContainers ==
    {NameContainer(Zeros(4), c) : c \in NameCandidates}
    \cup {NameContainer(Zeros(4), EncStr(<<97>>) \o EncStr(Letters(MaxNameLen))),
          NameContainer(MagicANIM, EncStr(Letters(MaxNameLen)))}

\* 1SER containers in which a section is missing or cut
BrokenSerContainers ==
    {Magic1SER \o Zeros(4),
     Magic1SER \o MagicTPL1 \o Zeros(2),
     Magic1SER \o MagicTPL1 \o Zeros(6),
     Magic1SER \o MagicTPL1 \o Zeros(8),
     Magic1SER \o MagicTPL1 \o Zeros(8) \o MagicOGM1 \o Zeros(5)}

\* an 8-byte vertex record and a 6-byte face record
EncVertex(x, y, z, packed) ==
    EncU16(IF x < 0 THEN x + 65536 ELSE x) \o EncU16(IF y < 0 THEN y + 65536 ELSE y)
        \o EncU16(IF z < 0 THEN z + 65536 ELSE z) \o EncU16(packed)
EncFace(a, b, c) == EncU16(a) \o EncU16(b) \o EncU16(c)

\* geometry blobs: 60 bytes with six vertex records (two at one position)
\* and a face record at 90%, and 40 bytes without a complete face record
GeomBlob(a, b, c) ==
    EncVertex(1, 0, 0, 5) \o EncVertex(0, 1, 0, 200) \o EncVertex(-1, 0, 2, 40000)
        \o EncVertex(0, 1, 0, 7) \o EncVertex(3, 3, 3, 181) \o EncVertex(4, 0, 0, 0)
        \o Zeros(6) \o EncFace(a, b, c)
GeomBlobs ==
    {GeomBlob(0, 1, 2), GeomBlob(0, 3, 4), GeomBlob(0, 1, 5), Zeros(40)}

SerInputs ==
    {FsFile(c) : c \in SerContainers \cup BrokenSerContainers}
    \cup {FsFileWithData(c, g) : c \in SerContainers, g \in GeomBlobs}

\* every byte of every input lies outside the UTF-8 lead bytes 0xC2..0xF4
InputAlphabet == (0..193) \cup (245..255)

LoadTplInputs ==
    {FsFile(d) : d \in UsfFiles \cup UnknownHeaderFiles \cup BadLengthFiles \cup ShortFiles}
    \cup {FsFile(Prefix(d, Len(d) - 1)) : d \in UsfFiles}
    \cup SerInputs
    \cup {FsMissing, FsDir(SerContainer(MaxObjects, FALSE), <<>>)}

UsfLoadInputs ==
    {FsFile(d) : d \in TruncatedFiles \cup TruncationBases \cup BadLengthFiles}
    \cup {FsMissing}

\* a geometry blob of the given length: zero bytes up to the 6-byte-aligned
\* 85% offset, then the face record (1, 2, 3) repeated to the end
FaceRecord123 == <<1, 0, 2, 0, 3, 0>>
AlignedAt085(len) == (((len * 17) \div 20) \div 6) * 6
FaceBlob(len) ==
    [i \in 1..len |->
        IF i <= AlignedAt085(len) THEN 0
        ELSE FaceRecord123[((i - AlignedAt085(len) - 1) % 6) + 1]]
FaceBlobLengths == {60, 600, 2400, 3000, 3203, 3204, 3205, 3233, 3234, 3240, 4000}
\* zero bytes up to start, then the face record (1, 2, 3) repeated to the end
FaceBlobFrom(len, start) ==
    [i \in 1..len |->
        IF i <= start THEN 0 ELSE FaceRecord123[((i - start - 1) % 6) + 1]]
\* blobs with exactly 80 and exactly 81 records after the 80% offset 1920,
\* and a blob of face records only
ThresholdBlobs == {FaceBlobFrom(2400, 1920), FaceBlobFrom(2406, 1920), FaceBlobFrom(4000, 0)}
FindFaceInputs ==
    {FsFileWithData(<<>>, FaceBlob(len)) : len \in FaceBlobLengths}
    \cup {FsFileWithData(<<>>, b) : b \in ThresholdBlobs}

SerLoadInputs ==
    SerInputs \cup {FsFile(c) : c \in NameContainers} \cup {FsMissing, FsDir(SerContainer(MaxObjects, FALSE), <<>>),
                    FsFile(UsfHeader(FileVersion, <<>>, 0))}

\* a childless node frame in which the non-mesh section s is flagged and
\* its flag byte is followed by the section's bytes (payload)
SectionNode(nv, s, payload) ==
    EncI32(nv) \o EncI32(7) \o EncStr(<<>>) \o EncStr(<<>>) \o EncStr(<<>>)
        \o EncI32(0) \o EncStr(<<>>)
        \o EncMatrix(Matrix4) \o EncMatrix(Matrix4) \o EncMatrix(Matrix4)
        \o EncStr(<<>>)
        \o Flatten([k \in 1..FlagCount(nv) |->
                       IF k = s THEN <<1>> \o payload ELSE <<0>>])
        \o (IF nv >= 267 THEN EncStr(<<>>) ELSE <<>>)
        \o EncI32(0)
SectionPayloads == {<<>>, <<0, 0, 5>>, <<0, 0, 0, 1>>}
SectionNodes ==
    {SectionNode(257, s, p) : s \in {1, 3, 4}, p \in SectionPayloads}
    \cup {SectionNode(270, s, p) : s \in {5, 13}, p \in SectionPayloads}

ParseNodeInputs ==
    {FsFile(SixFlagNode(nv, uid, b)) : nv \in NodeVersions, uid \in Uids, b \in BOOLEAN}
    \cup {FsFile(d) : d \in SectionNodes}
    \cup {FsFile(NodeBytes(nv, 7, Letters(MaxNameLen), Matrix2, {}, <<>>, 0, <<>>)) :
             nv \in NodeVersions}

\* the files given to two successive loads on one parser object
SerTwiceInputs ==
    {FsFileWithData(SerContainer(1, FALSE), GeomBlob(0, 1, 2)),
     FsFile(SerContainer(1, TRUE)), FsFile(SerContainer(0, FALSE)),
     FsFile(Magic1SER \o Zeros(4)), FsMissing}
UsfTwiceInputs ==
    {FsFile(UsfHeader(FileVersion, <<>>, 1)
                \o NodeBytes(257, 7, Letters(MaxNameLen), Matrix2, {}, <<>>, 1, Children(257, 1))),
     FsFile(UsfHeader(FileVersion, <<>>, 1)
                \o NodeBytes(257, -3, <<>>, Matrix4, {}, <<>>, 0, <<>>)),
     FsFile(UsfHeader(FileVersion, <<>>, 0)), FsFile(<<150, 0, 0>>), FsMissing}

Entries ==
    {"load_tpl", "USFParser.load", "SERParser.load", "_parse_node",
     "_find_face_data_offset", "decompress_normal_from_int16"} \cup TwiceEntries

InputsOf(e) ==
    CASE e = "load_tpl" -> LoadTplInputs
      [] e = "USFParser.load" -> UsfLoadInputs
      [] e = "SERParser.load" -> SerLoadInputs
      [] e = "_parse_node" -> ParseNodeInputs
      [] e = "_find_face_data_offset" -> FindFaceInputs
      [] e = "decompress_normal_from_int16" -> {FsMissing}
      [] e = "SERParser.load twice" -> SerTwiceInputs
      [] e = "USFParser.load twice" -> UsfTwiceInputs

\* packed words decompress_normal_from_int16 is called on: the ends of the
\* int16 and uint16 ranges and the neighbours of the multiples of 181 and 181^2
NormalWords ==
    {-32768, -32767, -32761, -181, -1, 0, 1, 90, 180, 181, 16380, 32760, 32761,
     32767, 32768, 40000, 49141, 65522, 65535}

(***************************************************************************)
(* The specification.                                                      *)
(***************************************************************************)
NoReader == [buf |-> <<>>, pos |-> 0, short |-> {}]

Init ==
    /\ entry \in Entries
    /\ fs \in InputsOf(entry)
    /\ lt = [pc |-> IF entry = "load_tpl" THEN "open" ELSE "idle",
             header |-> <<>>, calls |-> <<>>, outcomes |-> <<>>, result |-> <<>>]
    /\ mesh = <<>>
    /\ IF entry = "decompress_normal_from_int16"
       THEN loc \in {[w |-> w] : w \in NormalWords}
       ELSE loc = MeshLocals
    /\ CASE entry = "load_tpl" ->
              /\ parser = NoParser /\ pc = "idle" /\ heap = <<>> /\ stack = <<>>
              /\ reader = NoReader
         [] entry \in {"USFParser.load", "USFParser.load twice"} ->
              /\ parser = NewUSFParser /\ pc = "usf.load" /\ heap = <<>> /\ stack = <<>>
              /\ reader = NoReader
         [] entry \in {"SERParser.load", "SERParser.load twice"} ->
              /\ parser = NewSERParser /\ pc = "ser.load" /\ heap = <<>> /\ stack = <<>>
              /\ reader = NoReader
         [] entry = "_parse_node" ->
              \* USFParser()._parse_node(BytesIO(data)): node = TPLNode()
              /\ parser = NewUSFParser /\ pc = "node.version"
              /\ heap = <<TPLNode(0, <<>>)>> /\ stack = <<NewFrame(1)>>
              /\ reader = [buf |-> fs.data, pos |-> 0, short |-> {}]
         [] entry = "_find_face_data_offset" ->
              \* a SERParser whose tpl_geom_data is the blob
              /\ parser = [NewSERParser EXCEPT !.tpl_geom_data = fs.geom]
              /\ pc = "ser.find_face" /\ heap = <<>> /\ stack = <<>>
              /\ reader = NoReader
         [] entry = "decompress_normal_from_int16" ->
              /\ parser = NoParser /\ pc = "normal.call" /\ heap = <<>> /\ stack = <<>>
              /\ reader = NoReader

Next ==
    \/ LoadTpl_open
    \/ LoadTpl_detect
    \/ LoadTpl_fallback
    \/ LoadTpl_return
    \/ USF_load
    \/ USF_parse
    \/ USF_parse_node
    \/ USF_parse_mesh
    \/ USF_mesh_return
    \/ USF_node_return
    \/ USF_parse_except
    \/ USF_node_propagate
    \/ SER_load
    \/ SER_parse_tpl1
    \/ SER_parse_ogm1
    \/ SER_parse_object_names
    \/ SER_find_face
    \/ Normal_call
    \/ SER_parse_geometry
    \/ SER_build_hierarchy
    \/ SER_parse_except
    \/ Load_again(InputsOf(entry))

Spec == Init /\ [][Next]_vars

\* the calls SERParser().load(filepath) alone; the interpreter keeps running
\* the while loop of _parse_object_names: a pass that can be taken is taken
SerLoadInit == Init /\ entry = "SERParser.load"
SerLoadNext ==
    \/ SER_load
    \/ SER_parse_tpl1
    \/ SER_parse_ogm1
    \/ SER_parse_object_names
    \/ SER_parse_geometry
    \/ SER_build_hierarchy
    \/ SER_parse_except
SerLoadSpec == SerLoadInit /\ [][SerLoadNext]_vars /\ WF_vars(SER_parse_object_names)

(***************************************************************************)
(* Properties of load_tpl.                                                 *)
(***************************************************************************)
\* the first four bytes of the file, as load_tpl sees them
FileHead == SubSeq(fs.data, 1, Min(4, Len(fs.data)))
HeadIs1SER == FileHead = Magic1SER
HeadInUsfRange ==
    /\ Len(FileHead) = 4
    /\ 0 < I32(FileHead) /\ I32(FileHead) < UsfVersionLimit
\* load_tpl has read the header of a regular file and is past the dispatch
Dispatched == entry = "load_tpl" /\ fs.kind = "file" /\ lt.pc \in Sites \cup {"returned"}
Returned == entry = "load_tpl" /\ lt.pc = "returned"
NoAttemptSucceeded == \A i \in 1..Len(lt.outcomes) : ~lt.outcomes[i]
SomeAttemptSucceeded == \E i \in 1..Len(lt.outcomes) : lt.outcomes[i]

\* C1: the first parser load_tpl calls is fixed by the first four bytes of
\* the file: a file beginning with '1SER' always has the SER parser called,
\* and called first; a file whose first word is an int32 in (0, 1000) has
\* the USF parser called first.
C1_FirstParserByHeader ==
    Dispatched =>
        /\ HeadIs1SER => lt.calls # <<>> /\ lt.calls[1] = "SER"
        /\ HeadInUsfRange => lt.calls # <<>> /\ lt.calls[1] = "USF"

\* a file with a first word in (0, 1000) went to USF first and to the other
\* parsers afterwards
C1_Witness_UsfFirstThenOthers ==
    /\ Returned /\ HeadInUsfRange
    /\ Len(lt.calls) = 3 /\ lt.calls[1] = "USF"

\* C2 as stated: whenever the parser chosen first for a '1SER' header or
\* for a first word in (0, 1000) fails, the other parser is called before
\* load_tpl returns a failure.
C2_Stated_OtherParserAlwaysTried ==
    (Returned /\ (HeadIs1SER \/ HeadInUsfRange) /\ fs.kind = "file"
         /\ NoAttemptSucceeded /\ lt.calls # <<>>)
        => \E i \in 2..Len(lt.calls) : lt.calls[i] # lt.calls[1]

\* C2: a failing USF parser chosen for a first word in (0, 1000) is followed
\* by the SER parser and then the USF parser once more before load_tpl
\* returns a failure; a failing SER parser chosen for a '1SER' header is
\* followed by no other parser: load_tpl returns at once.
C2_FallbackOnlyAfterUsf ==
    (Returned /\ fs.kind = "file" /\ NoAttemptSucceeded /\ lt.calls # <<>>) =>
        /\ HeadInUsfRange => lt.calls = <<"USF", "SER", "USF">>
        /\ HeadIs1SER => lt.calls = <<"SER">>

\* a failed USF-first file that went through the whole fallback chain
C2_Witness_UsfFallbackChain ==
    /\ Returned /\ HeadInUsfRange /\ NoAttemptSucceeded
    /\ lt.calls = <<"USF", "SER", "USF">>
    /\ lt.outcomes = <<FALSE, FALSE, FALSE>>

\* C3 as stated: when load_tpl returns and no parser succeeded the tag is
\* UNKNOWN, and a parser's tag is returned only when that parser succeeded.
C3_Stated_UnknownIffNoSuccess ==
    Returned =>
        /\ NoAttemptSucceeded => lt.result[1].tag = TagUNKNOWN
        /\ lt.result[1].tag # TagUNKNOWN => SomeAttemptSucceeded

\* C3: when load_tpl returns and no parser succeeded, the tag is UNKNOWN
\* unless the file begins with '1SER', in which case the tag is '1SER';
\* the tag 'USF' is returned only when the USF parser succeeded, and the
\* tag '1SER' only when the SER parser succeeded or the file begins with
\* '1SER'.
C3_TagOnFailure ==
    Returned =>
        /\ NoAttemptSucceeded =>
               lt.result[1].tag = (IF fs.kind = "file" /\ HeadIs1SER THEN TagSER
                                   ELSE TagUNKNOWN)
        /\ lt.result[1].tag = TagUSF =>
               /\ lt.outcomes # <<>> /\ lt.outcomes[Len(lt.outcomes)]
               /\ lt.calls[Len(lt.calls)] = "USF"
        /\ lt.result[1].tag = TagSER =>
               \/ fs.kind = "file" /\ HeadIs1SER
               \/ /\ lt.outcomes # <<>> /\ lt.outcomes[Len(lt.outcomes)]
                  /\ lt.calls[Len(lt.calls)] = "SER"

\* a '1SER' file on which the SER parser failed, returned with the tag '1SER'
C3_Witness_SerTagOnFailure ==
    /\ Returned /\ HeadIs1SER /\ NoAttemptSucceeded
    /\ lt.calls = <<"SER">>
    /\ lt.result[1] = [root |-> None, tag |-> TagSER]

\* C4 as stated: load_tpl never raises; every run ends with a (root, tag)
\* pair.
C4_Stated_NeverRaises == entry = "load_tpl" => lt.pc # "raised"

\* C5: no partial tree surfaces on failure.  A USFParser or SERParser that
\* was created for one load and reports failure still has root None,
\* whatever nodes were built before the failing read; and when load_tpl
\* returns with no successful parser the root it returns is None.
C5_NoPartialTreeOnFailure ==
    /\ (/\ entry # "_parse_node" /\ ~(entry \in TwiceEntries /\ lt.calls # <<>>)
        /\ parser.kind \in {"USF", "SER"} /\ parser.status = "false")
           => parser.root = None
    /\ (Returned /\ NoAttemptSucceeded) => lt.result[1].root = None

\* a USF parse that failed after it had built a node and read its name
C5_Witness_FailedAfterNodeBuilt ==
    /\ entry = "USFParser.load" /\ parser.status = "false"
    /\ heap # <<>> /\ heap[1].name # <<>>
    /\ parser.root = None

(***************************************************************************)
(* The has-root byte of a USF stream: it follows the version, the three    *)
(* strings and the scene version.                                          *)
(***************************************************************************)
HasRootByte(buf) ==
    LET s1 == read_string(buf, 4)
        s2 == read_string(buf, s1.pos)
        s3 == read_string(buf, s2.pos)
    IN  ByteAt(buf, s3.pos + 4 + 1)
LastAttemptSucceeded == lt.outcomes # <<>> /\ lt.outcomes[Len(lt.outcomes)]

\* C6 as stated: whenever a parser reports success, load_tpl returns a
\* non-null root with that parser's tag.
C6_Stated_SuccessHasRoot ==
    (Returned /\ SomeAttemptSucceeded) =>
        /\ lt.result[1].root # None
        /\ lt.result[1].tag = (IF parser.kind = "SER" THEN TagSER ELSE TagUSF)

\* C6: whenever a parser reports success, load_tpl returns that parser's
\* root with that parser's tag.  The root is a node without a parent when
\* the USF stream's has-root byte is not 0, or when the SER parser
\* recovered an object name or geometry; it is None for a USF stream
\* whose has-root byte is 0 and for a 1SER container from which neither
\* was recovered.
C6_SuccessReturnsParserRoot ==
    (Returned /\ SomeAttemptSucceeded) =>
        /\ LastAttemptSucceeded
        /\ lt.result[1].root = parser.root
        /\ lt.result[1].tag = (IF parser.kind = "SER" THEN TagSER ELSE TagUSF)
        /\ parser.kind = "USF" =>
               (lt.result[1].root # None <=> HasRootByte(fs.data) # 0)
        /\ parser.kind = "SER" =>
               (lt.result[1].root # None <=> parser.objects # <<>>)
        /\ lt.result[1].root # None =>
               /\ lt.result[1].root \in 1..Len(heap)
               /\ heap[lt.result[1].root].parent = None

\* a USF stream with has-root byte 0: success, tag 'USF', root None
C6_Witness_SuccessWithoutRoot ==
    /\ Returned /\ LastAttemptSucceeded
    /\ parser.kind = "USF" /\ HasRootByte(fs.data) = 0
    /\ lt.result[1] = [root |-> None, tag |-> TagUSF]

\* C7: a USF buffer in which some field needs more bytes than remain (a
\* fixed-size number or matrix, a string payload, an element of a
\* count-prefixed list, the bone-pair skip region) makes USFParser._parse
\* return False: no parse that returned True has ever been handed fewer
\* bytes than it asked for.
C7_TruncationAborts ==
    (parser.kind = "USF" /\ parser.status = "true") => reader.short = {}

\* a parse that was handed a short bone-pair skip region and returned False
C7_Witness_ShortSkipAborted ==
    /\ entry = "USFParser.load" /\ parser.status = "false"
    /\ "skip" \in reader.short

(***************************************************************************)
(* Properties of the USF reader.                                           *)
(***************************************************************************)
\* the steps of the USF parser that are one call of read_string
StringLabels ==
    {"parse.source_path", "parse.file_type", "parse.options",
     "node.name", "node.model_name", "node.affixes", "node.pses_data",
     "node.source_id", "node.maya_node_id",
     "mesh.uv_name", "mesh.mat_name", "mesh.mat_data", "mesh.blend_key"}

\* the cursor stands before a complete length prefix that read_string rejects
BadLengthAhead ==
    /\ reader.pos + 4 <= Len(reader.buf)
    /\ \/ I32At(reader.buf, reader.pos) <= 0
       \/ I32At(reader.buf, reader.pos) > 10000

\* C8: read_string on a length prefix that is > 10000 or <= 0 returns the
\* empty string, leaves the cursor exactly 4 bytes past where it started,
\* reads nothing past the buffer, and the enclosing parse goes on to its
\* next step instead of aborting.
C8_BadLengthGivesEmptyString ==
    [][(parser.kind = "USF" /\ parser.status = "running"
            /\ pc \in StringLabels /\ BadLengthAhead)
        => /\ reader'.pos = reader.pos + 4
           /\ reader'.short = reader.short
           /\ pc' # "usf.raise" /\ parser'.status = "running"
           /\ (pc = "parse.source_path" => parser'.source_path = <<>>)
           /\ (pc = "parse.file_type" => parser'.file_type = <<>>)
           /\ (pc = "node.name" => heap'[Top.node].name = <<>>)
           /\ (pc = "node.maya_node_id" => heap'[Top.node].maya_node_id = <<>>)]_vars

\* a stream whose source path has a length prefix above 10000 followed by
\* payload bytes, parsed to the end: empty source path, a root node
C8_Witness_ParsedPastBadLength ==
    /\ entry = "USFParser.load" /\ parser.status = "true"
    /\ I32At(fs.data, 4) > 10000 /\ Len(fs.data) > 8
    /\ parser.source_path = <<>>
    /\ parser.root # None /\ heap[parser.root].name = Letters(MaxNameLen)

\* a direct call of _parse_node on the bytes of the file has returned or raised
ParseNodeFinished == entry = "_parse_node" /\ parser.status \in {"returned", "raised"}

\* the node _parse_node returned is the minimal node with this uid, and
\* the cursor is at the end of the buffer
ReturnedMinimalNode(uid) ==
    /\ parser.status = "returned"
    /\ loc.returned \in 1..Len(heap)
    /\ LET node == heap[loc.returned]
       IN  /\ node.uid = uid /\ node.name = <<>>
           /\ node.local_matrix = Matrix4 /\ node.world_matrix = Matrix4
           /\ node.mesh = <<>> /\ node.children = <<>> /\ node.parent = None
    /\ reader.pos = Len(reader.buf)

\* C9 as stated: the buffer made of exactly the listed fields parses to
\* the minimal node with the cursor at the end of the buffer.
C9_Stated_ListedFieldsParse ==
    \A nv \in NodeVersions, uid \in Uids :
        (ParseNodeFinished /\ fs.data = SixFlagNode(nv, uid, FALSE))
            => ReturnedMinimalNode(uid)

\* C9: the buffer made of version 0x103, uid, three empty strings, an
\* empty property block, three identity matrices, an empty source-id
\* string, six zero flag bytes and a zero child count parses to a node
\* with that uid, empty name, identity matrices, no mesh and no children,
\* with the cursor at the end of the buffer.
C9_MinimalNodeParses ==
    \A uid \in Uids :
        (ParseNodeFinished /\ fs.data = SixFlagNode(259, uid, TRUE))
            => ReturnedMinimalNode(uid)

\* the version 0x103 buffer with uid -3 has been parsed
C9_Witness_MinimalNodeReturned ==
    /\ ParseNodeFinished /\ fs.data = SixFlagNode(259, -3, TRUE)
    /\ ReturnedMinimalNode(-3)

\* the USF file with one node whose mesh section holds 3 vertices, 3
\* normals, one UV set of 3 coordinates and one face-material record
MinimalMeshFile(mv, uvName) ==
    UsfHeader(FileVersion, <<>>, 1)
        \o NodeBytes(263, 7, <<>>, Matrix4, {2}, SimpleMesh(mv, 3, uvName), 0, <<>>)

\* "uv0"
NameUV0 == <<117, 118, 48>>

\* C10: the minimal USF file with one mesh-flagged node holding 3
\* vertices, 3 normals, one UV set of 3 coordinates and one face-material
\* record parses to a mesh with 3 vertices, 3 normals and exactly one UV
\* set of 3 coordinates, whose name is the one in the stream when the
\* mesh version is >= 0x107 and 'uv0' below that.
C10_MinimalMeshParses ==
    \A mv \in MeshVersions, len \in {0, MaxNameLen} :
        (Returned /\ fs.kind = "file" /\ fs.data = MinimalMeshFile(mv, Letters(len))) =>
            /\ lt.result[1].tag = TagUSF
            /\ lt.result[1].root \in 1..Len(heap)
            /\ heap[lt.result[1].root].mesh # <<>>
            /\ LET m == heap[lt.result[1].root].mesh[1]
               IN  /\ Len(m.vertices) = 3 /\ Len(m.normals) = 3
                   /\ m.vertices = [i \in 1..3 |-> [c \in 1..3 |-> F1 + 3 * (i - 1) + c]]
                   /\ Len(m.uv_sets) = 1
                   /\ Len(m.uv_sets[1].uvs) = 3
                   /\ m.uv_sets[1].name = (IF mv >= 263 THEN Letters(len) ELSE NameUV0)
                   /\ Len(m.faces) = 1

\* a version 0x106 mesh, whose UV set got the synthesized name
C10_Witness_SynthesizedName ==
    /\ Returned /\ fs.kind = "file"
    /\ fs.data = MinimalMeshFile(262, Letters(MaxNameLen))
    /\ lt.result[1].root # None
    /\ heap[lt.result[1].root].mesh # <<>>
    /\ heap[lt.result[1].root].mesh[1].uv_sets[1].name = NameUV0
    /\ Len(heap[lt.result[1].root].mesh[1].vertices) = 3

(***************************************************************************)
(* Properties of the SER geometry decoder.                                 *)
(***************************************************************************)
FindFaceReturned == entry = "_find_face_data_offset" /\ parser.status = "returned"
\* complete 6-byte records between the aligned 85% offset and the end
RecordsFrom085(len) == (len - AlignedAt085(len)) \div 6

\* C11 as stated: on a blob whose records are valid non-degenerate
\* triangles from 85% of its length on and garbage before,
\* _find_face_data_offset returns the 6-byte-aligned 85% offset, whatever
\* the length of the blob.
C11_Stated_FindsOffsetAtEveryLength ==
    \A len \in FaceBlobLengths :
        (FindFaceReturned /\ fs.geom = FaceBlob(len))
            => loc.face_offset = AlignedAt085(len)

\* C11: on such a blob _find_face_data_offset returns the 6-byte-aligned
\* 85% offset when more than 80 complete records lie between that offset
\* and the end of the blob, and 0 (no candidate accepted) when there are
\* 80 or fewer.
C11_FindsOffsetWhenEnoughRecords ==
    \A len \in FaceBlobLengths :
        (FindFaceReturned /\ fs.geom = FaceBlob(len))
            => loc.face_offset = (IF RecordsFrom085(len) > 80 THEN AlignedAt085(len) ELSE 0)

\* a blob of 3204 bytes, 81 records after offset 2718: the offset is found
C11_Witness_OffsetFound ==
    /\ FindFaceReturned /\ Len(fs.geom) = 3204
    /\ RecordsFrom085(3204) = 81
    /\ loc.face_offset = 2718

\* the four candidates in the order the code tries them, 6-byte aligned,
\* and the number of valid records among the 100 probed at each
Candidate(len, k) ==
    LET at == CASE k = 1 -> (len * 4) \div 5 [] k = 2 -> (len * 17) \div 20
                [] k = 3 -> (len * 9) \div 10 [] OTHER -> IntTimes070(len)
    IN  (at \div 6) * 6
Score(data, k) == ValidCount(data, Candidate(Len(data), k))

SerMeshNodes ==
    {n \in 1..Len(heap) :
        /\ parser.kind = "SER"
        /\ \E k \in 1..Len(parser.objects) : parser.objects[k] = n
        /\ heap[n].mesh # <<>>}
\* the i-th 8-byte vertex record of a blob (from 0): position and packed normal
RecordPosition(data, i) ==
    <<I16(SubSeq(data, 8 * i + 1, 8 * i + 2)), I16(SubSeq(data, 8 * i + 3, 8 * i + 4)),
      I16(SubSeq(data, 8 * i + 5, 8 * i + 6))>>
RecordPacked(data, i) == U16(SubSeq(data, 8 * i + 7, 8 * i + 8))
\* the position of a record rounded to 4 decimals, in ten-thousandths
RoundedKey(data, i) == [c \in 1..3 |-> 100 * RecordPosition(data, i)[c]]
\* the number of vertex records before the vertex/face boundary
VertexRecordCount(data) ==
    LET found == SER_find_face_data_offset(data)
    IN  (IF found > 0 THEN found ELSE IntTimes090(Len(data))) \div 8
\* the records whose rounded position no earlier record has
FirstOccurrences(data) ==
    {i \in 0..(VertexRecordCount(data) - 1) :
        \A j \in 0..(i - 1) : RoundedKey(data, j) # RoundedKey(data, i)}
\* the k-th smallest element of a set of naturals
RECURSIVE KthOf(_, _)
KthOf(S, k) ==
    LET least == CHOOSE x \in S : \A y \in S : x <= y
    IN  IF k = 1 THEN least ELSE KthOf(S \ {least}, k - 1)

\* C12: vertex records with the same position rounded to 4 decimals
\* collapse to one entry.  In every SER mesh no two vertices share a
\* rounded position; the vertices are the first occurrences of the
\* positions, in blob order, each with the normal of that first record; a
\* later duplicate adds neither a vertex nor a normal.
C12_FirstOccurrenceWins ==
    \A n \in SerMeshNodes :
        LET m == heap[n].mesh[1]
            data == parser.tpl_geom_data
            firsts == FirstOccurrences(data)
        IN  /\ Len(m.vertices) = Cardinality(firsts)
            /\ Len(m.normals) = Cardinality(firsts)
            /\ \A a, b \in 1..Len(m.vertices) :
                   a # b => \E c \in 1..3 : 100 * m.vertices[a][c] # 100 * m.vertices[b][c]
            /\ \A k \in 1..Len(m.vertices) :
                   /\ m.vertices[k] = RecordPosition(data, KthOf(firsts, k))
                   /\ m.normals[k] =
                          decompress_normal_from_int16(RecordPacked(data, KthOf(firsts, k)))

\* a mesh of 5 vertices built from 6 records, the fourth a duplicate of the
\* second with another packed normal
C12_Witness_DuplicateDropped ==
    \E n \in SerMeshNodes :
        /\ VertexRecordCount(parser.tpl_geom_data) = 6
        /\ RoundedKey(parser.tpl_geom_data, 3) = RoundedKey(parser.tpl_geom_data, 1)
        /\ RecordPacked(parser.tpl_geom_data, 3) # RecordPacked(parser.tpl_geom_data, 1)
        /\ Len(heap[n].mesh[1].vertices) = 5
        /\ heap[n].mesh[1].vertices[4] = RecordPosition(parser.tpl_geom_data, 4)

\* C13 as stated: a face index that designated a vertex record dropped as
\* a duplicate is remapped to the surviving entry or the face is dropped,
\* so that every index of a kept face designates, in the deduplicated
\* vertex list, the position of the vertex record it designated in the blob.
C13_Stated_FaceIndicesFollowDedup ==
    \A n \in SerMeshNodes :
        LET m == heap[n].mesh[1]
            data == parser.tpl_geom_data
        IN  \A k \in 1..Len(m.faces) :
                \A i \in {m.faces[k].a, m.faces[k].b, m.faces[k].c} :
                    m.vertices[i + 1] = RecordPosition(data, i)

(***************************************************************************)
(* Properties of the trees the parsers return.                             *)
(***************************************************************************)
\* a node and everything below it
RECURSIVE Descendants(_)
Descendants(n) ==
    {n} \cup UNION {Descendants(heap[n].children[k]) : k \in 1..Len(heap[n].children)}
\* the nodes of the tree of a parser that returned True
ParsedTreeNodes ==
    IF parser.status = "true" /\ parser.root # None THEN Descendants(parser.root) ELSE {}
ParsedMeshNodes == {n \in ParsedTreeNodes : heap[n].mesh # <<>>}

\* C14 as stated: in every mesh of every tree a parser returns, the three
\* vertex indices of each face are below the number of positions.
C14_Stated_FaceIndicesInRange ==
    \A n \in ParsedMeshNodes :
        LET m == heap[n].mesh[1]
        IN  \A k \in 1..Len(m.faces) :
                /\ m.faces[k].a < Len(m.vertices)
                /\ m.faces[k].b < Len(m.vertices)
                /\ m.faces[k].c < Len(m.vertices)

\* C15 as stated: in every mesh of every tree a parser returns, the
\* normals, each UV set, each color set and the skin list, when present,
\* are as long as the list of positions.
C15_Stated_ChannelsMatchPositions ==
    \A n \in ParsedMeshNodes :
        LET m == heap[n].mesh[1]
            count == Len(m.vertices)
        IN  /\ m.normals # <<>> => Len(m.normals) = count
            /\ \A k \in 1..Len(m.uv_sets) : Len(m.uv_sets[k].uvs) = count
            /\ \A k \in 1..Len(m.colors) : Len(m.colors[k]) = count
            /\ m.skins # <<>> => Len(m.skins) = count

\* C16 as stated: in every tree a parser returns no two distinct nodes
\* have the same uid.
C16_Stated_UidsUnique ==
    \A a, b \in ParsedTreeNodes : a # b => heap[a].uid # heap[b].uid

(***************************************************************************)
(* Properties of the normal decompression.                                 *)
(***************************************************************************)
NormalReturned == entry = "decompress_normal_from_int16" /\ pc = "idle"
\* decompress_normal_from_int16(0): x = -181/179, y = 0, z = -181/180
NormalOfZero == [xn |-> -181, zn |-> -32761, sign |-> 0]

\* C17: decompress_normal_from_int16(-32768) is the triple of
\* decompress_normal_from_int16(0): -32768 is replaced by 0 before the
\* absolute value, the fractional parts and the sign are computed.
C17_MinInt16IsZero ==
    (NormalReturned /\ loc.w \in {-32768, 0}) => loc.normal = NormalOfZero

\* the call with -32768 has returned the triple of 0
C17_Witness_MinInt16Decompressed ==
    NormalReturned /\ loc.w = -32768 /\ loc.normal = NormalOfZero

\* x^2, z^2 and y^2 = clamp(1 - x^2 - z^2, 0, 1) of a decompressed normal
\* in ten-thousandths, rounded down (179^2 = 32041, 181^2 * 180^2 / 10^4
\* = 106145.64); y is 0 when the sign is 0
SquaredNorm(n) ==
    LET x2 == (n.xn * n.xn * 10000) \div 32041
        z2 == (n.zn * n.zn) \div 106146
        rest == 10000 - x2 - z2
        y2 == IF n.sign = 0 \/ rest < 0 THEN 0 ELSE rest
    IN  x2 + y2 + z2

\* C18 as stated: for every w the decompressed triple has
\* x^2 + y^2 + z^2 <= 1 + epsilon, here with epsilon = 0.01.
C18_Stated_NormBounded ==
    /\ NormalReturned => SquaredNorm(loc.normal) <= 10100
    /\ \A n \in SerMeshNodes :
           \A k \in 1..Len(heap[n].mesh[1].normals) :
               SquaredNorm(heap[n].mesh[1].normals[k]) <= 10100

(***************************************************************************)
(* Properties of the optional sections of a node frame.                    *)
(***************************************************************************)
\* _parse_node runs on a frame whose flagged non-mesh section holds bytes
SectionWithBytes ==
    /\ entry = "_parse_node"
    /\ \E nv \in NodeVersions, s \in 1..SectionCount, p \in SectionPayloads \ {<<>>} :
           SectionNode(nv, s, p) \in SectionNodes /\ fs.data = SectionNode(nv, s, p)

\* C19 as stated: a flagged non-mesh section is skipped whole, so the
\* later flags and the child count are read at their true offsets: in a
\* childless frame with one flagged section the child count is read from
\* the last four bytes of the frame, and the frame parses.
C19_Stated_SectionBytesSkipped ==
    (entry = "_parse_node" /\ fs.data \in SectionNodes)
        => /\ (pc = "node.child_count" /\ parser.status = "running")
                  => reader.pos = Len(fs.data) - 4
           /\ parser.status # "raised"

(***************************************************************************)
(* Properties of the path conventions of the raw format.                   *)
(***************************************************************************)
\* load_tpl was given a path whose container (the file itself, or the
\* inner file of a directory) begins with '1SER', and has returned
ReturnedOn1SER(kind) == Returned /\ fs.kind = kind /\ HeadIs1SER

\* C20 as stated: load_tpl accepts both path conventions: for a file path
\* and for a directory path whose container begins with '1SER' it reads the
\* container's header, calls the SER parser, which loads the container and
\* the sibling geometry, and returns the tag '1SER'.
C20_Stated_BothPathConventions ==
    \A kind \in {"file", "dir"} :
        ReturnedOn1SER(kind) =>
            /\ lt.calls # <<>> /\ lt.calls[1] = "SER"
            /\ parser.kind = "SER" /\ parser.tpl_data = fs.data
            /\ fs.has_sibling => parser.tpl_geom_data = fs.geom
            /\ lt.result[1].tag = TagSER

(***************************************************************************)
(* Properties of successive parses.                                        *)
(***************************************************************************)
\* the second load on one parser object has returned
SecondLoadReturned ==
    /\ entry \in TwiceEntries /\ lt.calls # <<>>
    /\ pc = "idle" /\ parser.status \in {"true", "false"}
\* the trees the caller holds after the first and after the second load
FirstTree == IF lt.result[1].root = None THEN {} ELSE Descendants(lt.result[1].root)
SecondTree == IF parser.root = None THEN {} ELSE Descendants(parser.root)

\* C21 as stated: parses share no mutable state: the tree of the second of
\* two successive loads on one parser object holds only nodes created by
\* the second load, and no node belongs to the trees of both loads.
C21_Stated_NoSharedState ==
    SecondLoadReturned =>
        /\ \A n \in SecondTree : n > lt.result[1].first_nodes
        /\ FirstTree \cap SecondTree = {}

(***************************************************************************)
(* Properties of the fallback boundary of the SER geometry.                *)
(***************************************************************************)
\* SERParser.load has built the geometry node n from a blob in which no
\* candidate offset qualified
FallbackGeometry(n) ==
    /\ entry = "SERParser.load" /\ parser.kind = "SER"
    /\ n \in 1..Len(heap) /\ heap[n].name = NameMesh /\ heap[n].mesh # <<>>
    /\ \A k \in 1..4 : Score(parser.tpl_geom_data, k) <= 80
\* floor(0.9 * len)
Boundary090(data) == (9 * Len(data)) \div 10
\* the complete 8-byte records before the boundary whose rounded position
\* no earlier record has
FallbackFirsts(data) ==
    {i \in 0..((Boundary090(data) \div 8) - 1) :
        \A j \in 0..(i - 1) : RoundedKey(data, j) # RoundedKey(data, i)}
\* the complete 6-byte records from the boundary on whose three indices
\* are below the vertex count nv
FallbackFaces(data, nv) ==
    {i \in 0..(((Len(data) - Boundary090(data)) \div 6) - 1) :
        LET t == Triangle(data, Boundary090(data) + 6 * i)
        IN  t[1] < nv /\ t[2] < nv /\ t[3] < nv}

\* C23: when no candidate offset qualifies the geometry is still parsed:
\* the boundary is floor(0.9 * len), the complete 8-byte records before it
\* give the vertices (first occurrences), the complete 6-byte records from
\* it on give the faces (those with all indices below the vertex count),
\* and SERParser.load returns True.
C23_FallbackAt090 ==
    \A n \in 1..Len(heap) :
        FallbackGeometry(n) =>
            LET m == heap[n].mesh[1]
                data == parser.tpl_geom_data
                firsts == FallbackFirsts(data)
                faces == FallbackFaces(data, Len(m.vertices))
            IN  /\ Len(m.vertices) = Cardinality(firsts)
                /\ \A k \in 1..Len(m.vertices) :
                       m.vertices[k] = RecordPosition(data, KthOf(firsts, k))
                /\ Len(m.faces) = Cardinality(faces)
                /\ \A k \in 1..Len(m.faces) :
                       LET t == Triangle(data, Boundary090(data) + 6 * KthOf(faces, k))
                       IN  m.faces[k] = Face(t[1], t[2], t[3])
                /\ parser.status # "false"

\* a 60-byte blob parsed with the boundary at 54: six records, five
\* vertices, one face, and load returned True
C23_Witness_FallbackParsed ==
    \E n \in 1..Len(heap) :
        /\ FallbackGeometry(n) /\ parser.status = "true"
        /\ Len(parser.tpl_geom_data) = 60
        /\ Len(heap[n].mesh[1].vertices) = 5 /\ Len(heap[n].mesh[1].faces) = 1

(***************************************************************************)
(* Properties of the SER object-name recovery.                             *)
(***************************************************************************)
\* the loop of _parse_object_names is at the cursor loc.pos
InNameLoop == parser.kind = "SER" /\ parser.status = "running" /\ pc = "ser.object_names"
\* the first 'ANIM' in the buffer, or its length
FirstAnimOrEnd(data) ==
    LET at == {i \in 0..(Len(data) - 4) : SubSeq(data, i + 1, i + 4) = MagicANIM}
    IN  IF at = {} THEN Len(data) ELSE CHOOSE i \in at : \A j \in at : i <= j
\* the length word at offset pos, when four bytes lie there, else 0
DeclaredLength(data, pos) ==
    IF pos + 4 > Len(data) THEN 0
    ELSE data[pos + 1] + 256 * data[pos + 2]
            + (IF data[pos + 3] # 0 \/ data[pos + 4] # 0 THEN 65536 ELSE 0)
\* the candidate at pos decodes: declared length in 1..256, payload inside
\* the buffer and ASCII; its text is the payload without trailing NULs
CandidateDecodes(data, pos) ==
    LET n == DeclaredLength(data, pos)
    IN  /\ n >= 1 /\ n <= 256 /\ pos + 4 + n <= Len(data)
        /\ \A i \in (pos + 5)..(pos + 4 + n) : data[i] < 128
CandidateLength(data, pos) ==
    LET n == DeclaredLength(data, pos)
        kept == {k \in 1..n : data[pos + 4 + k] # 0}
    IN  IF kept = {} THEN 0 ELSE CHOOSE k \in kept : \A j \in kept : j <= k
CandidateHasLetter(data, pos) ==
    \E k \in 1..CandidateLength(data, pos) : IsAlpha(data[pos + 4 + k])
\* one pass of the loop: the candidate at the cursor is taken as a name
\* (a node with the next uid is appended, the cursor moves past the
\* payload) when accept holds, else the cursor moves one byte
NamePass(accept) ==
    LET data == parser.tpl_data
        pos == loc.pos
    IN  IF accept
        THEN /\ Len(parser'.objects) = Len(parser.objects) + 1
             /\ Len(heap') = Len(heap) + 1
             /\ parser'.objects[Len(parser'.objects)] = Len(heap')
             /\ heap'[Len(heap')].name
                    = SubSeq(data, pos + 5, pos + 4 + CandidateLength(data, pos))
             /\ loc'.pos = pos + 4 + DeclaredLength(data, pos)
        ELSE /\ parser'.objects = parser.objects /\ heap' = heap
             /\ loc'.pos = pos + 1

\* C24 as stated: a candidate is accepted exactly when its decoded length
\* is > 0 and < 100 and it holds a letter; then a node is appended and the
\* cursor moves past the payload, else the cursor advances one byte.
C24_Stated_AcceptedFromLengthOne ==
    [][(InNameLoop /\ loc.pos < loc.ogm1_end - 10) =>
           NamePass(/\ CandidateDecodes(parser.tpl_data, loc.pos)
                    /\ CandidateLength(parser.tpl_data, loc.pos) > 0
                    /\ CandidateLength(parser.tpl_data, loc.pos) < 100
                    /\ CandidateHasLetter(parser.tpl_data, loc.pos))]_vars

\* C24: the scan runs from 100 bytes after the OGM1 counts while the cursor
\* is below (first 'ANIM' of the buffer, or its end) - 10; a candidate is
\* accepted exactly when its decoded length is > 1 and < 100 and it holds a
\* letter; then a node is appended and the cursor moves past the payload,
\* else the cursor advances one byte.
C24_AcceptedFromLengthTwo ==
    [][InNameLoop =>
          /\ loc.ogm1_end = FirstAnimOrEnd(parser.tpl_data)
          /\ IF loc.pos < loc.ogm1_end - 10
             THEN NamePass(/\ CandidateDecodes(parser.tpl_data, loc.pos)
                           /\ CandidateLength(parser.tpl_data, loc.pos) > 1
                           /\ CandidateLength(parser.tpl_data, loc.pos) < 100
                           /\ CandidateHasLetter(parser.tpl_data, loc.pos))
             ELSE pc' # "ser.object_names" /\ parser'.objects = parser.objects]_vars

\* the one-letter candidate "a" was passed over byte by byte and the name
\* "ab" after it was taken
C24_Witness_OneLetterRejected ==
    /\ entry = "SERParser.load" /\ parser.status = "true"
    /\ fs.data = NameContainer(Zeros(4), EncStr(<<97>>) \o EncStr(Letters(MaxNameLen)))
    /\ Len(parser.objects) = 1
    /\ heap[parser.objects[1]].name = Letters(MaxNameLen)

(***************************************************************************)
(* Properties of the parent/child links.                                   *)
(***************************************************************************)
\* the roots of the trees the calls of this behaviour have returned
ReturnedRoots ==
    {r \in 1..Len(heap) :
        \/ entry \in {"USFParser.load", "SERParser.load"} \cup TwiceEntries
               /\ pc = "idle" /\ parser.status = "true" /\ parser.root = r
        \/ entry \in TwiceEntries /\ lt.calls # <<>>
               /\ lt.outcomes[1] /\ lt.result[1].root = r
        \/ entry = "_parse_node" /\ parser.status = "returned" /\ loc.returned = r
        \/ Returned /\ lt.result[1].root = r}
\* the (parent, position) pairs at which node c is listed as a child
ListedAt(c) ==
    {<<p, k>> \in (1..Len(heap)) \X (1..Len(heap)) :
        k <= Len(heap[p].children) /\ heap[p].children[k] = c}
\* the links of the tree under r: each child points back to its parent and
\* is listed once in the whole heap, children are in creation order, and
\* the root has no parent
LinksConsistent(r) ==
    /\ heap[r].parent = None
    /\ \A n \in Descendants(r) :
           /\ \A k \in 1..Len(heap[n].children) :
                  /\ heap[heap[n].children[k]].parent = n
                  /\ Cardinality(ListedAt(heap[n].children[k])) = 1
           /\ \A j, k \in 1..Len(heap[n].children) :
                  j < k => heap[n].children[j] # heap[n].children[k]

\* C25 as stated: in every tree a parser has returned, every child's parent
\* is the node that lists it, the root has no parent, every non-root node
\* is a child of exactly one node, and the SER root lists every recovered
\* object, the geometry node first.
C25_Stated_LinksConsistent ==
    /\ \A r \in ReturnedRoots : LinksConsistent(r)
    /\ (parser.kind = "SER" /\ parser.status = "true" /\ parser.root # None)
           => heap[parser.root].children = parser.objects

\* the same for the calls made on a parser object that was not used before
SingleParseLinksConsistent ==
    entry \notin TwiceEntries => C25_Stated_LinksConsistent

(***************************************************************************)
(* Termination of the SER object-name recovery.                            *)
(***************************************************************************)
\* C26: the loop of _parse_object_names terminates: each pass moves the
\* cursor forward, by exactly 1 when the candidate is rejected and by 4
\* plus the declared length (at least 5, and not past the end of the
\* buffer) when it is accepted; the loop is left once the cursor is at or
\* beyond ogm1_end - 10, and every scan that starts ends.
C26_NameScanTerminates ==
    /\ [][(InNameLoop /\ loc.pos < loc.ogm1_end - 10) =>
             /\ pc' = "ser.object_names"
             /\ IF parser'.objects = parser.objects
                THEN loc'.pos = loc.pos + 1
                ELSE /\ loc'.pos = loc.pos + 4 + DeclaredLength(parser.tpl_data, loc.pos)
                     /\ loc'.pos >= loc.pos + 5
                     /\ loc'.pos <= Len(parser.tpl_data)]_vars
    /\ [][(InNameLoop /\ loc.pos >= loc.ogm1_end - 10) => pc' = "ser.parse_geometry"]_vars
    /\ (InNameLoop ~> (parser.kind = "SER" /\ pc = "ser.parse_geometry"))

\* the scan of a container holding "a" and then "ab" has ended after
\* rejecting and accepting passes, with the cursor at or past ogm1_end - 10
C26_Witness_ScanEnded ==
    /\ parser.kind = "SER" /\ pc = "ser.parse_geometry"
    /\ fs.data = NameContainer(Zeros(4), EncStr(<<97>>) \o EncStr(Letters(MaxNameLen)))
    /\ Len(parser.objects) = 1
    /\ loc.pos >= loc.ogm1_end - 10

====
